---- MODULE Spec2Model ----
(***************************************************************************)
(* Model of the WireGuard panel backend: the in-memory dataset behind one  *)
(* mutex, the request handlers of server.rs, the conversions of the        *)
(* optional ("patch") records, the config renderer, the JSON persistence   *)
(* and the wg-quick / systemctl subprocess control.                        *)
(*                                                                         *)
(* Text is modelled by TLA+ strings, Option<T> by a sequence of length 0   *)
(* or 1, Vec<T> by a sequence, Result by a record with a tag.              *)
(***************************************************************************)
EXTENDS Integers, Sequences, FiniteSets, TLC

\* ------------------------------------------------------------------ bounds
\* Number of request-serving threads of the runtime.
NumThreads == 2

\* Largest client list the model builds.
MaxClients == 2

Threads == 1..NumThreads

\* The state of the program
VARIABLES
    wireguard_data,   \* app_values.wireguard_data: the in-memory dataset
    data_json,        \* the file data.json
    wg_conf,          \* the file at config.wireguard_config_path
    device,           \* the tunnel device: "up" or "down"
    mutex,            \* the Mutex around WireGuardAppValues: holder, poisoned
    pc,               \* per thread: where its handler stands
    frame,            \* per thread: its handler's request, entry snapshot, I/O log
    resp              \* per thread: the response its handler returns

\* --------------------------------------------------------------- Option<T>
None == <<>>
Some(v) == <<v>>
IsSome(o) == Len(o) > 0
IsNone(o) == Len(o) = 0
Unwrap(o) == o[1]
\* Option::or
OrElse(o, p) == IF IsSome(o) THEN o ELSE p
\* Option::unwrap_or
UnwrapOr(o, d) == IF IsSome(o) THEN o[1] ELSE d

\* ---------------------------------------------------------------- strings
RECURSIVE Join(_, _)
\* [String]::join(sep)
Join(seq, sep) ==
    IF Len(seq) = 0 THEN ""
    ELSE IF Len(seq) = 1 THEN seq[1]
    ELSE seq[1] \o sep \o Join(Tail(seq), sep)

RECURSIVE Concat(_)
\* concatenation of a sequence of strings
Concat(seq) == IF Len(seq) = 0 THEN "" ELSE seq[1] \o Concat(Tail(seq))

\* Sequence map
MapSeq(f(_), seq) == [i \in 1..Len(seq) |-> f(seq[i])]

\* ------------------------------------------------------------ key material
\* Base64 private keys the key-pair primitive accepts.
PrivKeys == {"kA", "kB"}
\* Privkey::parse(..).is_ok()
PrivkeyParseOk(k) == k \in PrivKeys
\* Privkey::pubkey().to_base64(): the public key derived from a private key
Pubkey(k) == IF k = "kA" THEN "pA" ELSE IF k = "kB" THEN "pB" ELSE "p?"
\* Key::from_str(..): the key a well formed key text denotes, None otherwise
KeyFromStr(s) == IF s \in {"kA", "kB", "pA", "pB", "sA"} THEN Some(s) ELSE None

\* --------------------------------------------------------------- addresses
\* An address text: a dotted quad (ip, four octets) or other text (junk),
\* followed by an optional "/mask" suffix.
AddrText(ip, mask) == [ip |-> ip, junk |-> "", mask |-> mask]
JunkText(s) == [ip |-> <<>>, junk |-> s, mask |-> None]

\* Display of Ipv4Addr
Ipv4ToString(ip) ==
    ToString(ip[1]) \o "." \o ToString(ip[2]) \o "." \o ToString(ip[3]) \o "."
        \o ToString(ip[4])

\* The text itself
AddrToString(a) ==
    (IF a.junk # "" THEN a.junk ELSE Ipv4ToString(a.ip))
        \o (IF IsSome(a.mask) THEN "/" \o ToString(a.mask[1]) ELSE "")

\* addr.rsplit_once('/').map(|(ip, _)| ip).unwrap_or(addr): the mask dropped
StripMask(a) == [a EXCEPT !.mask = None]

\* Ipv4Addr::from_str(..): None when the text is no dotted quad
Ipv4FromStr(a) ==
    IF a.junk = "" /\ IsNone(a.mask) /\ Len(a.ip) = 4
         /\ \A i \in 1..4 : a.ip[i] \in 0..255
    THEN Some(a.ip)
    ELSE None

\* ------------------------------------------------------------------ config
\* AppConfig with the defaults of config.rs
config ==
    [wireguard_interface |-> "wg0",
     network_interface |-> "",
     address |-> "0.0.0.0:6252",
     wireguard_config_path |-> "/etc/wireguard/wg0.conf"]

\* What the host answers to netdev::get_interfaces() for the tunnel interface:
\* None (no interface of that name) or Some(list of its IPv4 addresses).
HostInterfaces == {None, Some(<<>>), Some(<<<<10, 8, 0, 1>>>>)}

\* AppConfig::get_wireguard_network_interface: Ok(interface) or
\* Err(ConfigurationError::WireGuardInterfaceNotFound)
get_wireguard_network_interface(host) ==
    IF IsSome(host)
    THEN [tag |-> "ok", ipv4 |-> Unwrap(host)]
    ELSE [tag |-> "err", ipv4 |-> <<>>]

\* ------------------------------------------------------------- hook texts
\* A hook command is a sequence of text segments; the two placeholders are
\* segments of their own.
DefaultPostUp ==
    <<"iptables -A FORWARD -i ", "{WIREGUARD_INTERFACE}",
      " -j ACCEPT; iptables -t nat -A POSTROUTING -o ", "{NETWORK_INTERFACE}",
      " -j MASQUERADE">>
DefaultPostDown ==
    <<"iptables -D FORWARD -i ", "{WIREGUARD_INTERFACE}",
      " -j ACCEPT; iptables -t nat -D POSTROUTING -o ", "{NETWORK_INTERFACE}",
      " -j MASQUERADE">>

DefaultListenPort == 51820

\* Result values of the conversions
Ok(v) == [tag |-> "ok", val |-> Some(v), err |-> ""]
Err(e) == [tag |-> "err", val |-> None, err |-> e]
Panic == [tag |-> "panic", val |-> None, err |-> "panic"]

\* AppError kinds (error.rs)
ErrFieldMissingEndpoint == "RestAPI:FieldMissing(endpoint)"
ErrFieldMissingName == "RestAPI:FieldMissing(name)"
ErrInvalidPrivateKey == "RestAPI:InvalidPrivateKey"
ErrConfiguration == "Configuration:WireGuardInterfaceNotFound"
ErrInvalidServerAddress == "InvalidServerAddress"
IsRestAPI(e) ==
    e \in {ErrFieldMissingEndpoint, ErrFieldMissingName, ErrInvalidPrivateKey}

\* ---------------------------------------------------------- server record
\* Mutant of to_wireguard_server_data: the private key is stored as it came,
\* without being parsed
to_wireguard_server_data_unparsed(self, default_endpoint, generated, host) ==
    LET private_key == UnwrapOr(self.private_key, generated)
        endpoint == OrElse(self.endpoint, default_endpoint)
        iface == get_wireguard_network_interface(host)
    IN  IF IsNone(endpoint) THEN Err(ErrFieldMissingEndpoint)
        ELSE IF IsNone(self.address) /\ iface.tag = "err"
        THEN Err(ErrConfiguration)
        ELSE IF IsNone(self.address) /\ Len(iface.ipv4) = 0 THEN Panic
        ELSE Ok([endpoint |-> Unwrap(endpoint),
                 address |->
                     IF IsSome(self.address) THEN Unwrap(self.address)
                     ELSE <<AddrText(iface.ipv4[1], None)>>,
                 dns |-> UnwrapOr(self.dns, <<>>),
                 listen_port |-> UnwrapOr(self.listen_port, DefaultListenPort),
                 public_key |-> Pubkey(private_key),
                 private_key |-> private_key,
                 pre_up |-> self.pre_up,
                 post_up |-> OrElse(self.post_up, Some(DefaultPostUp)),
                 pre_down |-> self.pre_down,
                 post_down |-> OrElse(self.post_down, Some(DefaultPostDown)),
                 table |-> self.table,
                 mtu |-> self.mtu])

\* Mutant of to_wireguard_server_data: hooks the request leaves out stay
\* absent
to_wireguard_server_data_no_hooks(self, default_endpoint, generated, host) ==
    LET private_key == UnwrapOr(self.private_key, generated)
        endpoint == OrElse(self.endpoint, default_endpoint)
        iface == get_wireguard_network_interface(host)
    IN  IF IsNone(endpoint) THEN Err(ErrFieldMissingEndpoint)
        ELSE IF IsNone(self.address) /\ iface.tag = "err"
        THEN Err(ErrConfiguration)
        ELSE IF IsNone(self.address) /\ Len(iface.ipv4) = 0 THEN Panic
        ELSE IF ~PrivkeyParseOk(private_key) THEN Err(ErrInvalidPrivateKey)
        ELSE Ok([endpoint |-> Unwrap(endpoint),
                 address |->
                     IF IsSome(self.address) THEN Unwrap(self.address)
                     ELSE <<AddrText(iface.ipv4[1], None)>>,
                 dns |-> UnwrapOr(self.dns, <<>>),
                 listen_port |-> UnwrapOr(self.listen_port, DefaultListenPort),
                 public_key |-> Pubkey(private_key),
                 private_key |-> private_key,
                 pre_up |-> self.pre_up,
                 post_up |-> self.post_up,
                 pre_down |-> self.pre_down,
                 post_down |-> self.post_down,
                 table |-> self.table,
                 mtu |-> self.mtu])

\* Mutant of to_wireguard_server_data: the fields the request leaves out are
\* taken from the stored server
to_wireguard_server_data_inheriting(self, default_endpoint, generated, host) ==
    LET old == wireguard_data.server
        merged == IF IsNone(old) THEN self
                  ELSE [self EXCEPT
                           !.private_key = OrElse(@, Some(Unwrap(old).private_key)),
                           !.address = OrElse(@, Some(Unwrap(old).address)),
                           !.listen_port = OrElse(@, Some(Unwrap(old).listen_port)),
                           !.pre_up = OrElse(@, Unwrap(old).pre_up),
                           !.table = OrElse(@, Unwrap(old).table)]
        private_key == UnwrapOr(merged.private_key, generated)
        endpoint == OrElse(merged.endpoint, default_endpoint)
        iface == get_wireguard_network_interface(host)
    IN  IF IsNone(endpoint) THEN Err(ErrFieldMissingEndpoint)
        ELSE IF IsNone(merged.address) /\ iface.tag = "err"
        THEN Err(ErrConfiguration)
        ELSE IF IsNone(merged.address) /\ Len(iface.ipv4) = 0 THEN Panic
        ELSE IF ~PrivkeyParseOk(private_key) THEN Err(ErrInvalidPrivateKey)
        ELSE Ok([endpoint |-> Unwrap(endpoint),
                 address |->
                     IF IsSome(merged.address) THEN Unwrap(merged.address)
                     ELSE <<AddrText(iface.ipv4[1], None)>>,
                 dns |-> UnwrapOr(merged.dns, <<>>),
                 listen_port |-> UnwrapOr(merged.listen_port, DefaultListenPort),
                 public_key |-> Pubkey(private_key),
                 private_key |-> private_key,
                 pre_up |-> merged.pre_up,
                 post_up |-> OrElse(merged.post_up, Some(DefaultPostUp)),
                 pre_down |-> merged.pre_down,
                 post_down |-> OrElse(merged.post_down, Some(DefaultPostDown)),
                 table |-> merged.table,
                 mtu |-> merged.mtu])

\* WireGuardOptionalServerData::to_wireguard_server_data.  generated is the
\* key Privkey::generate() yields, host the answer of the host's interface
\* enumeration.
to_wireguard_server_data(self, default_endpoint, generated, host) ==
    LET private_key == UnwrapOr(self.private_key, generated)
        endpoint == OrElse(self.endpoint, default_endpoint)
        iface == get_wireguard_network_interface(host)
    IN  IF IsNone(endpoint) THEN Err(ErrFieldMissingEndpoint)
        ELSE IF IsNone(self.address) /\ iface.tag = "err"
        THEN Err(ErrConfiguration)
        ELSE IF IsNone(self.address) /\ Len(iface.ipv4) = 0 THEN Panic
        ELSE IF ~PrivkeyParseOk(private_key) THEN Err(ErrInvalidPrivateKey)
        ELSE Ok([endpoint |-> Unwrap(endpoint),
                 address |->
                     IF IsSome(self.address) THEN Unwrap(self.address)
                     ELSE <<AddrText(iface.ipv4[1], None)>>,
                 dns |-> UnwrapOr(self.dns, <<>>),
                 listen_port |-> UnwrapOr(self.listen_port, DefaultListenPort),
                 public_key |-> Pubkey(private_key),
                 private_key |-> private_key,
                 pre_up |-> self.pre_up,
                 post_up |-> OrElse(self.post_up, Some(DefaultPostUp)),
                 pre_down |-> self.pre_down,
                 post_down |-> OrElse(self.post_down, Some(DefaultPostDown)),
                 table |-> self.table,
                 mtu |-> self.mtu])

\* ---------------------------------------------------------- client record
\* Mutant of beginning_address: a base that cannot be derived is replaced by
\* a fixed one
beginning_address_lenient(server, host) ==
    IF IsSome(server)
    THEN IF Len(Unwrap(server).address) = 0 THEN Panic
         ELSE LET ip == Ipv4FromStr(StripMask(Unwrap(server).address[1]))
              IN  IF IsSome(ip) THEN Ok(Unwrap(ip)) ELSE Ok(<<10, 0, 0, 0>>)
    ELSE LET iface == get_wireguard_network_interface(host)
         IN  IF iface.tag = "err" THEN Ok(<<10, 0, 0, 0>>)
             ELSE IF Len(iface.ipv4) = 0 THEN Panic
             ELSE Ok(iface.ipv4[1])

\* The base address of the allocator: the server's first address with its
\* mask stripped, or the first IPv4 address of the tunnel interface.
beginning_address(server, host) ==
    IF IsSome(server)
    THEN IF Len(Unwrap(server).address) = 0 THEN Panic
         ELSE LET ip == Ipv4FromStr(StripMask(Unwrap(server).address[1]))
              IN  IF IsSome(ip) THEN Ok(Unwrap(ip))
                  ELSE Err(ErrInvalidServerAddress)
    ELSE LET iface == get_wireguard_network_interface(host)
         IN  IF iface.tag = "err" THEN Err(ErrConfiguration)
             ELSE IF Len(iface.ipv4) = 0 THEN Panic
             ELSE Ok(iface.ipv4[1])

\* Mutant of increment: the last octet wraps without rolling into the third
increment_no_carry(octets, overflow_checks) ==
    Ok([octets EXCEPT ![4] = (octets[4] + 1) % 256])

\* The increment of the base address.  overflow_checks: whether the build
\* checks u8 arithmetic (it then panics on 255 + 1, and wraps otherwise).
increment(octets, overflow_checks) ==
    IF octets[4] < 255
    THEN Ok([octets EXCEPT ![4] = octets[4] + 1])
    ELSE IF octets[3] = 255 /\ overflow_checks THEN Panic
    ELSE Ok([octets EXCEPT ![3] = (octets[3] + 1) % 256, ![4] = 0])

\* Mutant of to_wireguard_client_data: no preshared key is generated unless
\* the request asks for one
to_wireguard_client_data_no_secret(self, default_name, server, host, gen, overflow_checks) ==
    LET private_key == UnwrapOr(self.private_key, gen.private_key)
        base == beginning_address(server, host)
        next == IF base.tag = "ok"
                THEN increment(Unwrap(base.val), overflow_checks)
                ELSE base
        name == OrElse(self.name, default_name)
    IN  IF next.tag # "ok" THEN next
        ELSE IF IsNone(name) THEN Err(ErrFieldMissingName)
        ELSE IF ~PrivkeyParseOk(private_key) THEN Err(ErrInvalidPrivateKey)
        ELSE LET ip == Ipv4ToString(Unwrap(next.val)) \o "/32"
             IN Ok([name |-> Unwrap(name),
                    uuid |-> UnwrapOr(self.uuid, gen.uuid),
                    enabled |-> UnwrapOr(self.enabled, FALSE),
                    preshared_key |->
                        OrElse(self.preshared_key,
                               IF UnwrapOr(self.generate_preshared_key, FALSE)
                               THEN Some(gen.secret) ELSE None),
                    public_key |-> Pubkey(private_key),
                    server_allowed_ips |-> UnwrapOr(self.server_allowed_ips, <<ip>>),
                    persistent_keep_alive |-> self.persistent_keep_alive,
                    private_key |-> private_key,
                    address |-> UnwrapOr(self.address, ip),
                    client_allowed_ips |->
                        UnwrapOr(self.client_allowed_ips, <<"0.0.0.0">>),
                    dns |-> UnwrapOr(self.dns, <<>>)])

\* WireGuardOptionalClientData::to_wireguard_client_data.  gen holds what the
\* generators yield: gen.private_key, gen.uuid, gen.secret.
to_wireguard_client_data(self, default_name, server, host, gen, overflow_checks) ==
    LET private_key == UnwrapOr(self.private_key, gen.private_key)
        base == beginning_address(server, host)
        next == IF base.tag = "ok"
                THEN increment(Unwrap(base.val), overflow_checks)
                ELSE base
        name == OrElse(self.name, default_name)
    IN  IF next.tag # "ok" THEN next
        ELSE IF IsNone(name) THEN Err(ErrFieldMissingName)
        ELSE IF ~PrivkeyParseOk(private_key) THEN Err(ErrInvalidPrivateKey)
        ELSE LET ip == Ipv4ToString(Unwrap(next.val)) \o "/32"
             IN Ok([name |-> Unwrap(name),
                    uuid |-> UnwrapOr(self.uuid, gen.uuid),
                    enabled |-> UnwrapOr(self.enabled, FALSE),
                    preshared_key |->
                        OrElse(self.preshared_key,
                               IF UnwrapOr(self.generate_preshared_key, TRUE)
                               THEN Some(gen.secret) ELSE None),
                    public_key |-> Pubkey(private_key),
                    server_allowed_ips |-> UnwrapOr(self.server_allowed_ips, <<ip>>),
                    persistent_keep_alive |-> self.persistent_keep_alive,
                    private_key |-> private_key,
                    address |-> UnwrapOr(self.address, ip),
                    client_allowed_ips |->
                        UnwrapOr(self.client_allowed_ips, <<"0.0.0.0">>),
                    dns |-> UnwrapOr(self.dns, <<>>)])

\* ---------------------------------------------------------------- renderer
\* A rendered text is built from pieces: the literals of the format strings,
\* with the line break a piece of its own, and the values put between them.
\* A text value spanning two lines:
TwoLineText == "eve\nPostUp = id"
\* The pieces of a value: the value itself, or its lines and the break
Pieces(v) == IF v = TwoLineText THEN <<"eve", "\n", "PostUp = id">> ELSE <<v>>
\* x.join(","), as pieces
RECURSIVE JoinPieces(_)
JoinPieces(seq) ==
    IF Len(seq) = 0 THEN <<>>
    ELSE IF Len(seq) = 1 THEN Pieces(seq[1])
    ELSE Pieces(seq[1]) \o <<",">> \o JoinPieces(Tail(seq))

\* WireGuardClientData::get_server_peer_config, piece by piece
get_server_peer_config_pieces(self) ==
    LET prefix == IF self.enabled THEN <<"\n">> ELSE <<"\n", "# ">>
    IN  <<"# Name: ">> \o Pieces(self.name)
        \o <<"\n", "# UUID: ", self.uuid>>
        \o prefix \o <<"[Peer]">>
        \o prefix \o <<"PublicKey = ">> \o Pieces(self.public_key)
        \o (IF IsSome(self.preshared_key)
            THEN prefix \o <<"PresharedKey = ">> \o Pieces(Unwrap(self.preshared_key))
            ELSE <<>>)
        \o prefix \o <<"AllowedIPs = ">> \o JoinPieces(self.server_allowed_ips)
        \o (IF IsSome(self.persistent_keep_alive)
            THEN prefix \o <<"PersistentKeepAlive = ",
                             ToString(Unwrap(self.persistent_keep_alive))>>
            ELSE <<>>)

\* WireGuardClientData::get_server_peer_config: the text of the pieces
get_server_peer_config(self) == Concat(get_server_peer_config_pieces(self))

\* Mutant of get_client_config_pieces: the interface section of the stored
\* server is quoted after the endpoint
get_client_config_pieces_leaky(self, server_public_key, server_endpoint) ==
    <<"# Name: ">> \o Pieces(self.name)
        \o <<"[Interface]">>
        \o <<"PrivateKey = ">> \o Pieces(self.private_key)
        \o <<"Address = ">> \o Pieces(self.address)
        \o (IF Len(self.dns) # 0 THEN <<"DNS = ">> \o JoinPieces(self.dns) ELSE <<>>)
        \o <<"[Peer]">>
        \o <<"PublicKey = ">> \o Pieces(server_public_key)
        \o (IF IsSome(self.preshared_key)
            THEN <<"PresharedKey = ">> \o Pieces(Unwrap(self.preshared_key))
            ELSE <<>>)
        \o <<"AllowedIPs = ">> \o JoinPieces(self.client_allowed_ips)
        \o <<"Endpoint = ">> \o Pieces(server_endpoint)
        \o (IF IsSome(wireguard_data.server)
            THEN <<"PrivateKey = ", Unwrap(wireguard_data.server).private_key>>
            ELSE <<>>)

\* WireGuardClientData::get_client_config, piece by piece (the code writes no
\* line break between them)
get_client_config_pieces(self, server_public_key, server_endpoint) ==
    <<"# Name: ">> \o Pieces(self.name)
        \o <<"[Interface]">>
        \o <<"PrivateKey = ">> \o Pieces(self.private_key)
        \o <<"Address = ">> \o Pieces(self.address)
        \o (IF Len(self.dns) # 0 THEN <<"DNS = ">> \o JoinPieces(self.dns) ELSE <<>>)
        \o <<"[Peer]">>
        \o <<"PublicKey = ">> \o Pieces(server_public_key)
        \o (IF IsSome(self.preshared_key)
            THEN <<"PresharedKey = ">> \o Pieces(Unwrap(self.preshared_key))
            ELSE <<>>)
        \o <<"AllowedIPs = ">> \o JoinPieces(self.client_allowed_ips)
        \o <<"Endpoint = ">> \o Pieces(server_endpoint)

\* WireGuardClientData::get_client_config: the text of the pieces
get_client_config(self, server_public_key, server_endpoint) ==
    Concat(get_client_config_pieces(self, server_public_key, server_endpoint))

\* replace_interface_vars: both placeholders substituted
replace_interface_vars(str, app_config) ==
    LET sub(seg) ==
            IF seg = "{WIREGUARD_INTERFACE}" THEN app_config.wireguard_interface
            ELSE IF seg = "{NETWORK_INTERFACE}" THEN app_config.network_interface
            ELSE seg
    IN  Concat(MapSeq(sub, str))

\* WireGuardServerData::get_interface_config
get_interface_config(self, app_config) ==
    LET hook(label, h) ==
            IF IsSome(h)
            THEN "\n" \o label \o " = " \o replace_interface_vars(Unwrap(h), app_config)
            ELSE ""
        second_part ==
            (IF IsSome(self.table) THEN "\nTable = " \o Unwrap(self.table) ELSE "")
            \o (IF IsSome(self.mtu) THEN "\nMTU = " \o ToString(Unwrap(self.mtu)) ELSE "")
            \o hook("PreUp", self.pre_up)
            \o hook("PostUp", self.post_up)
            \o hook("PreDown", self.pre_down)
            \o hook("PostDown", self.post_down)
    IN  "[Interface]"
        \o "\nAddress = " \o Join(MapSeq(AddrToString, self.address), ",")
        \o "\nListenPort = " \o ToString(self.listen_port)
        \o "\nPrivateKey = " \o self.private_key
        \o (IF Len(self.dns) # 0 THEN "\nDNS = " \o Join(self.dns, ",") ELSE "")
        \o (IF second_part # "" THEN "\n" \o second_part ELSE "")

\* Mutant of get_server_config: the header says whether the config file had
\* been written before
get_server_config_stamped(self, app_config) ==
    IF IsNone(self.server) THEN None
    ELSE Some("# Generated from WireGuard UI (" \o wg_conf.state \o ")\n"
              \o "# Do not edit manually!\n\n"
              \o get_interface_config(Unwrap(self.server), app_config)
              \o Concat(MapSeq(LAMBDA c : "\n\n" \o get_server_peer_config(c),
                               self.clients))
              \o "\n")

\* WireGuardData::get_server_config: None without a server
get_server_config(self, app_config) ==
    IF IsNone(self.server) THEN None
    ELSE Some("# Generated from WireGuard UI\n"
              \o "# Do not edit manually!\n\n"
              \o get_interface_config(Unwrap(self.server), app_config)
              \o Concat(MapSeq(LAMBDA c : "\n\n" \o get_server_peer_config(c),
                               self.clients))
              \o "\n")

\* WireGuardData::get_client_config: the first client of that uuid
get_client_by_uuid(self, uuid) ==
    IF \E i \in 1..Len(self.clients) : self.clients[i].uuid = uuid
    THEN Some(self.clients[CHOOSE i \in 1..Len(self.clients) :
                  /\ self.clients[i].uuid = uuid
                  /\ \A j \in 1..(i - 1) : self.clients[j].uuid # uuid])
    ELSE None

\* ------------------------------------------------------------- persistence
\* A file is unwritten (never written by this process), written (holds
\* exactly the content last written) or truncated (created anew by a write
\* that then failed: it holds at most a proper prefix of that content).
EmptyData == [server |-> None, clients |-> <<>>]
JsonFile(data) == [state |-> "written", data |-> data]
TruncatedJson == [state |-> "truncated", data |-> EmptyData]
TextFile(text) == [state |-> "written", text |-> text]
TruncatedText == [state |-> "truncated", text |-> ""]
UnwrittenText == [state |-> "unwritten", text |-> ""]

\* Outcomes of a whole-file write: File::create fails, write_all fails after
\* the file was created (truncated), or both succeed.
WriteOutcomes == {"ok", "create_failed", "write_failed"}

\* save_json_file: the result and the file it leaves
save_json_file(data, file, outcome) ==
    IF outcome = "create_failed" THEN [result |-> "err", file |-> file]
    ELSE IF outcome = "write_failed" THEN [result |-> "err", file |-> TruncatedJson]
    ELSE [result |-> "ok", file |-> JsonFile(data)]

\* data.json before the first run (read_json_file creates it, empty) and a
\* data.json holding nothing but white space
MissingJson == [state |-> "missing", data |-> EmptyData]
BlankJson == [state |-> "blank", data |-> EmptyData]

\* JSON documents, as serde_json writes and reads them
JNull == [type |-> "null"]
JBool(b) == [type |-> "bool", value |-> b]
JNumber(n) == [type |-> "number", value |-> n]
JString(s) == [type |-> "string", value |-> s]
JArray(items) == [type |-> "array", items |-> items]
JObject(fields) == [type |-> "object", fields |-> fields]
\* "{}"
JEmptyObject == JObject(<<>>)

\* The text forms of a UUID: 32 hex digits (simple), or grouped by hyphens
UuidText(format, uuid) == [format |-> format, uuid |-> uuid]
\* uuid::serde::simple::serialize
uuid_simple_serialize(uuid) == JString(UuidText("simple", uuid))
\* Mutant of uuid_deserialize: only the hyphenated form is accepted
uuid_deserialize_hyphenated(v) ==
    IF v.type = "string" /\ v.value.format = "hyphenated"
    THEN Some(v.value.uuid) ELSE None
\* Deserialize for Uuid (human readable): Uuid::from_str takes every form
uuid_deserialize(v) ==
    IF v.type = "string"
          /\ v.value.format \in {"simple", "hyphenated", "braced", "urn"}
    THEN Some(v.value.uuid) ELSE None

\* Serialize for Option<String>, Option<u16>, Vec<String>
ser_opt_string(o) == IF IsSome(o) THEN JString(Unwrap(o)) ELSE JNull
ser_opt_u16(o) == IF IsSome(o) THEN JNumber(Unwrap(o)) ELSE JNull
ser_strings(seq) == JArray([i \in 1..Len(seq) |-> JString(seq[i])])

\* Serialize for WireGuardServerData
server_serialize(self) ==
    JObject([endpoint |-> JString(self.endpoint),
             address |-> ser_strings(self.address),
             dns |-> ser_strings(self.dns),
             listen_port |-> JNumber(self.listen_port),
             private_key |-> JString(self.private_key),
             public_key |-> JString(self.public_key),
             pre_up |-> ser_opt_string(self.pre_up),
             post_up |-> ser_opt_string(self.post_up),
             pre_down |-> ser_opt_string(self.pre_down),
             post_down |-> ser_opt_string(self.post_down),
             table |-> ser_opt_string(self.table),
             mtu |-> ser_opt_u16(self.mtu)])

\* Serialize for WireGuardClientData
client_serialize(self) ==
    JObject([name |-> JString(self.name),
             uuid |-> uuid_simple_serialize(self.uuid),
             enabled |-> JBool(self.enabled),
             preshared_key |-> ser_opt_string(self.preshared_key),
             public_key |-> JString(self.public_key),
             server_allowed_ips |-> ser_strings(self.server_allowed_ips),
             persistent_keep_alive |-> ser_opt_u16(self.persistent_keep_alive),
             private_key |-> JString(self.private_key),
             address |-> JString(self.address),
             client_allowed_ips |-> ser_strings(self.client_allowed_ips),
             dns |-> ser_strings(self.dns)])

\* Serialize for WireGuardData: serde_json::to_string_pretty(data)
data_serialize(data) ==
    JObject([server |-> IF IsSome(data.server)
                        THEN server_serialize(Unwrap(data.server)) ELSE JNull,
             clients |-> JArray([i \in 1..Len(data.clients) |->
                                    client_serialize(data.clients[i])])])

\* Deserialize of the field types: what a field of an object is read as
Has(obj, name) == name \in DOMAIN obj.fields
is_string(obj, name) == Has(obj, name) /\ obj.fields[name].type = "string"
is_bool(obj, name) == Has(obj, name) /\ obj.fields[name].type = "bool"
is_u16(obj, name) ==
    /\ Has(obj, name) /\ obj.fields[name].type = "number"
    /\ obj.fields[name].value \in 0..65535
is_strings(obj, name) ==
    /\ Has(obj, name) /\ obj.fields[name].type = "array"
    /\ \A i \in 1..Len(obj.fields[name].items) :
           obj.fields[name].items[i].type = "string"
\* an Option field may be missing or null
is_absent(obj, name) == ~Has(obj, name) \/ obj.fields[name].type = "null"
de_opt(obj, name) ==
    IF is_absent(obj, name) THEN None ELSE Some(obj.fields[name].value)
de_strings(obj, name) ==
    [i \in 1..Len(obj.fields[name].items) |-> obj.fields[name].items[i].value]

ErrJson == "Json"
ErrIO == "IO"

\* Deserialize for WireGuardServerData
server_deserialize(v) ==
    IF /\ v.type = "object"
       /\ is_string(v, "endpoint") /\ is_strings(v, "address")
       /\ is_strings(v, "dns") /\ is_u16(v, "listen_port")
       /\ is_string(v, "private_key") /\ is_string(v, "public_key")
       /\ \A name \in {"pre_up", "post_up", "pre_down", "post_down", "table"} :
              is_absent(v, name) \/ is_string(v, name)
       /\ is_absent(v, "mtu") \/ is_u16(v, "mtu")
    THEN Ok([endpoint |-> v.fields.endpoint.value,
             address |-> de_strings(v, "address"),
             dns |-> de_strings(v, "dns"),
             listen_port |-> v.fields.listen_port.value,
             private_key |-> v.fields.private_key.value,
             public_key |-> v.fields.public_key.value,
             pre_up |-> de_opt(v, "pre_up"),
             post_up |-> de_opt(v, "post_up"),
             pre_down |-> de_opt(v, "pre_down"),
             post_down |-> de_opt(v, "post_down"),
             table |-> de_opt(v, "table"),
             mtu |-> de_opt(v, "mtu")])
    ELSE Err(ErrJson)

\* Deserialize for WireGuardClientData
client_deserialize(v) ==
    IF /\ v.type = "object"
       /\ is_string(v, "name")
       /\ Has(v, "uuid") /\ IsSome(uuid_deserialize(v.fields.uuid))
       /\ is_bool(v, "enabled")
       /\ is_absent(v, "preshared_key") \/ is_string(v, "preshared_key")
       /\ is_string(v, "public_key") /\ is_strings(v, "server_allowed_ips")
       /\ is_absent(v, "persistent_keep_alive") \/ is_u16(v, "persistent_keep_alive")
       /\ is_string(v, "private_key") /\ is_string(v, "address")
       /\ is_strings(v, "client_allowed_ips") /\ is_strings(v, "dns")
    THEN Ok([name |-> v.fields.name.value,
             uuid |-> Unwrap(uuid_deserialize(v.fields.uuid)),
             enabled |-> v.fields.enabled.value,
             preshared_key |-> de_opt(v, "preshared_key"),
             public_key |-> v.fields.public_key.value,
             server_allowed_ips |-> de_strings(v, "server_allowed_ips"),
             persistent_keep_alive |-> de_opt(v, "persistent_keep_alive"),
             private_key |-> v.fields.private_key.value,
             address |-> v.fields.address.value,
             client_allowed_ips |-> de_strings(v, "client_allowed_ips"),
             dns |-> de_strings(v, "dns")])
    ELSE Err(ErrJson)

\* Deserialize for WireGuardData: server is None when missing or null,
\* clients defaults to Vec::new() when missing
data_deserialize(v) ==
    IF v.type # "object" THEN Err(ErrJson)
    ELSE LET server == IF is_absent(v, "server") THEN Ok(None)
                       ELSE LET s == server_deserialize(v.fields.server)
                            IN  IF s.tag = "ok" THEN Ok(s.val) ELSE s
             items == IF Has(v, "clients") /\ v.fields.clients.type = "array"
                      THEN v.fields.clients.items ELSE <<>>
             clients == [i \in 1..Len(items) |-> client_deserialize(items[i])]
         IN  IF server.tag = "err" THEN server
             ELSE IF Has(v, "clients") /\ v.fields.clients.type # "array"
             THEN Err(ErrJson)
             ELSE IF \E i \in 1..Len(items) : clients[i].tag = "err"
             THEN Err(ErrJson)
             ELSE Ok([server |-> Unwrap(server.val),
                      clients |-> [i \in 1..Len(items) |-> Unwrap(clients[i].val)]])

\* What a file yields when read: nothing (missing, blank, or cut off
\* before the first byte), the document written, or a cut-off document
ReadOutcomes == {"ok", "open_failed"}
Cuts == {"empty", "partial"}
\* read_json_file: the dataset data.json holds; an empty text reads as "{}"
read_json_file(file, outcome, cut) ==
    IF outcome = "open_failed" THEN Err(ErrIO)
    ELSE IF file.state \in {"missing", "blank"} THEN data_deserialize(JEmptyObject)
    ELSE IF file.state = "truncated"
    THEN IF cut = "empty" THEN data_deserialize(JEmptyObject) ELSE Err(ErrJson)
    ELSE data_deserialize(data_serialize(file.data))

\* Mutant of save_wireguard_config: a failed write is not reported
save_wireguard_config_swallowed(data, app_config, file, outcome) ==
    IF outcome = "create_failed" THEN [result |-> "ok", file |-> file]
    ELSE IF outcome = "write_failed" THEN [result |-> "ok", file |-> TruncatedText]
    ELSE [result |-> "ok",
          file |-> TextFile(UnwrapOr(get_server_config(data, app_config), ""))]

\* Mutant of save_wireguard_config: without a server there is nothing to
\* render, and the write fails before the file is touched
save_wireguard_config_needs_server(data, app_config, file, outcome) ==
    IF outcome = "create_failed" \/ IsNone(get_server_config(data, app_config))
    THEN [result |-> "err", file |-> file]
    ELSE IF outcome = "write_failed" THEN [result |-> "err", file |-> TruncatedText]
    ELSE [result |-> "ok",
          file |-> TextFile(Unwrap(get_server_config(data, app_config)))]

\* save_wireguard_config: renders the dataset (empty text without a server)
\* and writes it
save_wireguard_config(data, app_config, file, outcome) ==
    IF outcome = "create_failed" THEN [result |-> "err", file |-> file]
    ELSE IF outcome = "write_failed" THEN [result |-> "err", file |-> TruncatedText]
    ELSE [result |-> "ok",
          file |-> TextFile(UnwrapOr(get_server_config(data, app_config), ""))]

\* ------------------------------------------------------ interface control
\* Outcomes of running the external tool: it cannot be launched, it exits
\* with status 0, or it exits with a nonzero status.
ToolOutcomes == {"launch_failed", "exit_zero", "exit_nonzero"}

\* start_wireguard: Command("wg-quick up").output(); Err only when the
\* launch fails.  The device comes up when the tool exits with 0.
start_wireguard(outcome, dev) ==
    [result |-> IF outcome = "launch_failed" THEN "err" ELSE "ok",
     device |-> IF outcome = "exit_zero" THEN "up" ELSE dev]

\* stop_wireguard: Command("wg-quick down").output()
stop_wireguard(outcome, dev) ==
    [result |-> IF outcome = "launch_failed" THEN "err" ELSE "ok",
     device |-> IF outcome = "exit_zero" THEN "down" ELSE dev]

\* reload_wireguard: Command("sudo systemctl reload").status()
reload_wireguard(outcome, dev) ==
    [result |-> IF outcome = "launch_failed" THEN "err" ELSE "ok",
     device |-> dev]

\* Mutant of restart_after_stop: the start follows whatever the stop did
restart_after_stop_always(stop_result) == "start"

\* restart_wireguard after its stop: StopFailed, or go on to start
restart_after_stop(stop_result) ==
    IF stop_result = "err" THEN "StopFailed" ELSE "start"

\* restart_wireguard after its start
restart_after_start(start_result) ==
    IF start_result = "err" THEN "StartFailed" ELSE "Ok"

\* ---------------------------------------------------------- live peers
\* Mutant of peers_of: a client absent from raw_peers gets an entry with
\* zeroed counters
RECURSIVE peers_of_zeroed(_, _)
peers_of_zeroed(clients, raw_peers) ==
    IF Len(clients) = 0 THEN Ok(<<>>)
    ELSE LET client == clients[1]
             key == KeyFromStr(client.public_key)
         IN  IF IsNone(key) THEN Err("InvalidPublicKey:" \o client.name)
             ELSE LET rest == peers_of_zeroed(Tail(clients), raw_peers)
                      live == Unwrap(key) \in DOMAIN raw_peers
                  IN  IF rest.tag # "ok" THEN rest
                      ELSE Ok(<<[name |-> client.name,
                                 uuid |-> client.uuid,
                                 server_allowed_ips |->
                                     IF live THEN raw_peers[Unwrap(key)].allowed_ips
                                     ELSE <<>>,
                                 address |-> client.address,
                                 protocol_version |->
                                     IF live THEN raw_peers[Unwrap(key)].protocol_version
                                     ELSE None,
                                 endpoint |->
                                     IF live THEN raw_peers[Unwrap(key)].endpoint
                                     ELSE None,
                                 dns |-> client.dns,
                                 transmitted_bytes |->
                                     IF live THEN raw_peers[Unwrap(key)].tx_bytes ELSE 0,
                                 received_bytes |->
                                     IF live THEN raw_peers[Unwrap(key)].rx_bytes ELSE 0,
                                 last_handshake |->
                                     IF live THEN raw_peers[Unwrap(key)].last_handshake
                                     ELSE None]>>
                              \o Unwrap(rest.val))

\* get_peers over the stored clients: Err(InvalidPublicKey) at the first
\* client whose key text is malformed, else the clients found in raw_peers
RECURSIVE peers_of(_, _)
peers_of(clients, raw_peers) ==
    IF Len(clients) = 0 THEN Ok(<<>>)
    ELSE LET client == clients[1]
             key == KeyFromStr(client.public_key)
         IN  IF IsNone(key) THEN Err("InvalidPublicKey:" \o client.name)
             ELSE LET rest == peers_of(Tail(clients), raw_peers)
                  IN  IF rest.tag # "ok" THEN rest
                      ELSE IF Unwrap(key) \in DOMAIN raw_peers
                      THEN LET raw_peer == raw_peers[Unwrap(key)]
                           IN Ok(<<[name |-> client.name,
                                    uuid |-> client.uuid,
                                    server_allowed_ips |-> raw_peer.allowed_ips,
                                    address |-> client.address,
                                    protocol_version |-> raw_peer.protocol_version,
                                    endpoint |-> raw_peer.endpoint,
                                    dns |-> client.dns,
                                    transmitted_bytes |-> raw_peer.tx_bytes,
                                    received_bytes |-> raw_peer.rx_bytes,
                                    last_handshake |-> raw_peer.last_handshake]>>
                                 \o Unwrap(rest.val))
                      ELSE rest

\* Mutant of get_peers: a client with a malformed key is skipped
get_peers_skipping(clients, raw) ==
    IF IsNone(raw) THEN Err("WireGuardInterface")
    ELSE peers_of(SelectSeq(clients, LAMBDA c : IsSome(KeyFromStr(c.public_key))),
                  Unwrap(raw))

\* get_peers: read_interface_data()? and the loop.  raw is None when the
\* interface cannot be read.
get_peers(clients, raw) ==
    IF IsNone(raw) THEN Err("WireGuardInterface")
    ELSE peers_of(clients, Unwrap(raw))

\* =================================================================== state
vars == <<wireguard_data, data_json, wg_conf, device, mutex, pc, frame, resp>>

NoResp == [status |-> 0, message |-> "", body |-> <<>>]
IdleFrame ==
    [op |-> "", uuid |-> "", body |-> <<>>, local |-> <<>>, pre |-> None, io |-> <<>>,
     host |-> None]

\* The handler's frame on entry: its request and what it found.  host is set
\* by the handlers whose conversion may ask the host for the tunnel interface.
NewFrame(op, uuid, body) ==
    [op |-> op, uuid |-> uuid, body |-> body, local |-> <<>>,
     pre |-> Some([mem |-> wireguard_data, disk |-> data_json,
                   conf |-> wg_conf, device |-> device]),
     io |-> <<>>, host |-> None]

\* (StatusCode, body).into_response() and ErrorResponse::from((code, message))
Response(status, message, body) ==
    [status |-> status, message |-> message, body |-> body]

\* main(): the dataset is read from data.json and written back before the
\* server starts; a first run finds no file and starts from the empty dataset.
Init ==
    /\ wireguard_data = EmptyData
    /\ data_json = JsonFile(EmptyData)
    /\ wg_conf = UnwrittenText
    /\ device \in {"up", "down"}
    /\ mutex = [holder |-> 0, poisoned |-> FALSE]
    /\ pc = [t \in Threads |-> "idle"]
    /\ frame = [t \in Threads |-> IdleFrame]
    /\ resp = [t \in Threads |-> NoResp]

\* ------------------------------------------------------------------- mutex
\* Mutant of lock_acquirable: the handler does not wait for the holder
lock_acquirable_unguarded(t) == pc[t] = "idle" /\ ~mutex.poisoned

\* app_values.lock().unwrap() succeeds: the mutex is free and not poisoned
lock_acquirable(t) == pc[t] = "idle" /\ mutex.holder = 0 /\ ~mutex.poisoned

\* The handler goes on holding the lock
Enter(t, next_pc, fr, r) ==
    /\ mutex' = [mutex EXCEPT !.holder = t]
    /\ pc' = [pc EXCEPT ![t] = next_pc]
    /\ frame' = [frame EXCEPT ![t] = fr]
    /\ resp' = [resp EXCEPT ![t] = r]

\* The handler panics holding the lock: the guard is dropped while
\* unwinding, which poisons the mutex; no response is produced
Unwind(t, fr) ==
    /\ mutex' = [holder |-> 0, poisoned |-> TRUE]
    /\ pc' = [pc EXCEPT ![t] = "panicked"]
    /\ frame' = [frame EXCEPT ![t] = fr]
    /\ resp' = [resp EXCEPT ![t] = NoResp]

\* lock().unwrap() on a poisoned mutex panics before any access
lock_poisoned(t) ==
    /\ pc[t] = "idle" /\ mutex.holder = 0 /\ mutex.poisoned
    /\ pc' = [pc EXCEPT ![t] = "panicked"]
    /\ UNCHANGED <<wireguard_data, data_json, wg_conf, device, mutex, frame, resp>>

\* The handler returns: the guard is dropped and the response goes out
return(t) ==
    /\ pc[t] \in {"ret", "panicked"}
    /\ mutex' = IF mutex.holder = t THEN [mutex EXCEPT !.holder = 0] ELSE mutex
    /\ pc' = [pc EXCEPT ![t] = "idle"]
    /\ frame' = [frame EXCEPT ![t] = IdleFrame]
    /\ resp' = [resp EXCEPT ![t] = NoResp]
    /\ UNCHANGED <<wireguard_data, data_json, wg_conf, device>>

\* ------------------------------------------------------------ read handlers
get_wireguard_server(t) ==
    /\ lock_acquirable(t)
    /\ Enter(t, "ret", NewFrame("get_server", "", None),
             Response(200, "", Some(wireguard_data.server)))
    /\ UNCHANGED <<wireguard_data, data_json, wg_conf, device>>

get_wireguard_clients(t) ==
    /\ lock_acquirable(t)
    /\ Enter(t, "ret", NewFrame("get_clients", "", None),
             Response(200, "", Some(wireguard_data.clients)))
    /\ UNCHANGED <<wireguard_data, data_json, wg_conf, device>>

get_wireguard_client(t, uuid) ==
    /\ lock_acquirable(t)
    /\ LET found == get_client_by_uuid(wireguard_data, uuid)
       IN  Enter(t, "ret", NewFrame("get_client", uuid, None),
                 IF IsSome(found) THEN Response(200, "", found)
                 ELSE Response(404, "Client config not found", None))
    /\ UNCHANGED <<wireguard_data, data_json, wg_conf, device>>

get_wireguard_peers(t, raw) ==
    /\ lock_acquirable(t)
    /\ LET peers == get_peers(wireguard_data.clients, raw)
       IN  Enter(t, "ret", NewFrame("get_peers", "", Some(raw)),
                 IF peers.tag = "ok" THEN Response(200, "", peers.val)
                 ELSE Response(500, "Could not get peers: " \o peers.err, None))
    /\ UNCHANGED <<wireguard_data, data_json, wg_conf, device>>

\* A caller of WireGuardClientData::get_client_config: the client-facing text
\* of a stored client, given the stored server's public key and endpoint
client_config(t, uuid) ==
    /\ lock_acquirable(t)
    /\ IsSome(wireguard_data.server)
    /\ \E i \in 1..Len(wireguard_data.clients) :
           /\ wireguard_data.clients[i].uuid = uuid
           /\ \A j \in 1..(i - 1) : wireguard_data.clients[j].uuid # uuid
           /\ Enter(t, "ret", NewFrame("client_config", uuid, None),
                    Response(200, "",
                             Some(get_client_config_pieces(
                                      wireguard_data.clients[i],
                                      Unwrap(wireguard_data.server).public_key,
                                      Unwrap(wireguard_data.server).endpoint))))
    /\ UNCHANGED <<wireguard_data, data_json, wg_conf, device>>

\* -------------------------------------------------------- mutating handlers
\* Mutant of conversion_error: every failed conversion is a bad request
conversion_error_bad_request(what, err) == Response(400, what \o err, None)

\* The error response of a failed conversion: 400 for AppError::RestAPI
conversion_error(what, err) ==
    Response(IF IsRestAPI(err) THEN 400 ELSE 500, what \o err, None)

\* One entry of a handler's I/O log
Logged(fr, call, outcome, result) ==
    [fr EXCEPT !.io = Append(fr.io, [call |-> call, outcome |-> outcome,
                                     result |-> result])]

\* put_wireguard_server up to its save: body is None for a JSON null
put_wireguard_server(t, body, generated, host) ==
    /\ lock_acquirable(t)
    /\ LET fr == [NewFrame("put_server", "", Some(body)) EXCEPT !.host = Some(host)]
           default_endpoint ==
               IF IsSome(wireguard_data.server)
               THEN Some(Unwrap(wireguard_data.server).endpoint)
               ELSE None
           conv == IF IsSome(body)
                   THEN to_wireguard_server_data(Unwrap(body), default_endpoint,
                                                 generated, host)
                   ELSE Ok(None)
           server == IF IsSome(body) THEN conv.val ELSE None
       IN  IF conv.tag = "panic"
           THEN Unwind(t, fr) /\ UNCHANGED wireguard_data
           ELSE IF conv.tag = "err"
           THEN /\ Enter(t, "ret", fr,
                         conversion_error("Could not create server: ", conv.err))
                /\ UNCHANGED wireguard_data
           ELSE /\ wireguard_data' = [wireguard_data EXCEPT !.server = server]
                /\ Enter(t, "save_json", [fr EXCEPT !.local = Some(server)], NoResp)
    /\ UNCHANGED <<data_json, wg_conf, device>>

\* delete_wireguard_server up to its save
delete_wireguard_server(t) ==
    /\ lock_acquirable(t)
    /\ wireguard_data' = [wireguard_data EXCEPT !.server = None]
    /\ Enter(t, "save_json", NewFrame("delete_server", "", None), NoResp)
    /\ UNCHANGED <<data_json, wg_conf, device>>

\* put_wireguard_clients up to its save: the list is replaced by the body
put_wireguard_clients(t, body) ==
    /\ lock_acquirable(t)
    /\ wireguard_data' = [wireguard_data EXCEPT !.clients = body]
    /\ Enter(t, "save_json", NewFrame("put_clients", "", Some(body)), NoResp)
    /\ UNCHANGED <<data_json, wg_conf, device>>

\* Mutant of position: an unknown identifier falls on the first record
position_or_first(clients, uuid) ==
    IF \E i \in 1..Len(clients) : clients[i].uuid = uuid
    THEN CHOOSE i \in 1..Len(clients) : clients[i].uuid = uuid
    ELSE IF Len(clients) > 0 THEN 1 ELSE 0

\* clients.iter().position(|client| client.uuid == uuid): 0 for None
position(clients, uuid) ==
    IF \E i \in 1..Len(clients) : clients[i].uuid = uuid
    THEN CHOOSE i \in 1..Len(clients) :
             /\ clients[i].uuid = uuid
             /\ \A j \in 1..(i - 1) : clients[j].uuid # uuid
    ELSE 0

\* Mutant of replace_at: the matched record is removed and the body appended
replace_at_moved(clients, index, body) ==
    Append(SubSeq(clients, 1, index - 1) \o SubSeq(clients, index + 1, Len(clients)),
           body)

\* clients[client_index] = body
replace_at(clients, index, body) == [clients EXCEPT ![index] = body]

\* put_wireguard_client up to its save
put_wireguard_client(t, uuid, body) ==
    /\ lock_acquirable(t)
    /\ LET fr == NewFrame("put_client", uuid, Some(body))
           client_index == position(wireguard_data.clients, uuid)
       IN  IF client_index = 0
           THEN /\ Enter(t, "ret", fr,
                         Response(404, "Client config not found", None))
                /\ UNCHANGED wireguard_data
           ELSE /\ wireguard_data' =
                       [wireguard_data EXCEPT
                           !.clients = replace_at(@, client_index, body)]
                /\ Enter(t, "save_json", fr, NoResp)
    /\ UNCHANGED <<data_json, wg_conf, device>>

\* Mutant of uuid_exists: the duplicate check finds nothing
uuid_exists_never(clients, uuid) == FALSE

\* clients.iter().any(|client| client.uuid == new_client.uuid)
uuid_exists(clients, uuid) == \E i \in 1..Len(clients) : clients[i].uuid = uuid

\* post_wireguard_clients up to its save
post_wireguard_clients(t, body, host, gen, overflow_checks) ==
    /\ lock_acquirable(t)
    /\ LET fr == [NewFrame("post_clients", "", Some(body)) EXCEPT !.host = Some(host)]
           conv == to_wireguard_client_data(body, None, wireguard_data.server,
                                            host, gen, overflow_checks)
       IN  IF conv.tag = "panic"
           THEN Unwind(t, fr) /\ UNCHANGED wireguard_data
           ELSE IF conv.tag = "err"
           THEN /\ Enter(t, "ret", fr,
                         conversion_error("Could not create client: ", conv.err))
                /\ UNCHANGED wireguard_data
           ELSE LET new_client == Unwrap(conv.val)
                IN  IF uuid_exists(wireguard_data.clients, new_client.uuid)
                    THEN /\ Enter(t, "ret", fr,
                                  Response(409, "Client already exists", None))
                         /\ UNCHANGED wireguard_data
                    ELSE /\ wireguard_data' =
                                [wireguard_data EXCEPT
                                    !.clients = Append(@, new_client)]
                         /\ Enter(t, "save_json",
                                  [fr EXCEPT !.local = Some(new_client)], NoResp)
    /\ UNCHANGED <<data_json, wg_conf, device>>

\* Mutant of save_response: the result of the save is not looked at
save_response_unchecked(fr, result) ==
    Response(200, "",
             IF fr.op \in {"put_server", "post_clients"} THEN fr.local ELSE None)

\* match data_manager::save_json_file(..): the response of a mutating handler
save_response(fr, result) ==
    IF result = "ok"
    THEN Response(200, "",
                  IF fr.op \in {"put_server", "post_clients"} THEN fr.local
                  ELSE None)
    ELSE Response(500, "Could not save data", None)

\* Mutant of save_and_respond: a failed save rolls the mutation back
save_and_respond_rollback(t, outcome) ==
    /\ pc[t] = "save_json"
    /\ LET saved == save_json_file(wireguard_data, data_json, outcome)
       IN  /\ data_json' = saved.file
           /\ resp' = [resp EXCEPT ![t] = save_response(frame[t], saved.result)]
           /\ frame' = [frame EXCEPT ![t] =
                  Logged(@, "save_json_file", outcome, saved.result)]
           /\ wireguard_data' =
                  IF saved.result = "err" THEN Unwrap(frame[t].pre).mem
                  ELSE wireguard_data
    /\ pc' = [pc EXCEPT ![t] = "ret"]
    /\ UNCHANGED <<wg_conf, device, mutex>>

\* The save of a mutating handler and its response
save_and_respond(t, outcome) ==
    /\ pc[t] = "save_json"
    /\ LET saved == save_json_file(wireguard_data, data_json, outcome)
       IN  /\ data_json' = saved.file
           /\ resp' = [resp EXCEPT ![t] = save_response(frame[t], saved.result)]
           /\ frame' = [frame EXCEPT ![t] =
                  Logged(@, "save_json_file", outcome, saved.result)]
    /\ pc' = [pc EXCEPT ![t] = "ret"]
    /\ UNCHANGED <<wireguard_data, wg_conf, device, mutex>>

\* ----------------------------------------------------------------- startup
\* main(): the process starts (again), with no handler running.  data.json is
\* opened (and created when missing), read and written back; a failure of
\* either ends the process before the server starts.
main(t, read, cut, write) ==
    /\ pc[t] \in {"idle", "exited"} /\ mutex.holder = 0
    /\ LET loaded == read_json_file(data_json, read, cut)
           opened == IF read = "ok" /\ data_json.state = "missing"
                     THEN BlankJson ELSE data_json
           data == IF loaded.tag = "ok" THEN Unwrap(loaded.val) ELSE EmptyData
           saved == save_json_file(data, opened, write)
           fr == Logged([NewFrame("main", "", None) EXCEPT !.local = Some(loaded)],
                        "read_json_file", read, loaded.tag)
       IN  IF loaded.tag = "err"
           THEN /\ data_json' = opened
                /\ wireguard_data' = EmptyData
                /\ pc' = [pc EXCEPT ![t] = "exited"]
                /\ frame' = [frame EXCEPT ![t] = fr]
           ELSE /\ data_json' = saved.file
                /\ wireguard_data' = data
                /\ pc' = [pc EXCEPT ![t] = IF saved.result = "ok" THEN "ret"
                                           ELSE "exited"]
                /\ frame' = [frame EXCEPT ![t] =
                       Logged(fr, "save_json_file", write, saved.result)]
    /\ mutex' = [holder |-> 0, poisoned |-> FALSE]
    /\ resp' = [resp EXCEPT ![t] = NoResp]
    /\ UNCHANGED <<wg_conf, device>>

\* --------------------------------------------------------- control handlers
\* wireguard_restart up to restart_wireguard: the rendered config is written;
\* on failure the handler returns at once
wireguard_restart(t, outcome) ==
    /\ lock_acquirable(t)
    /\ LET saved == save_wireguard_config(wireguard_data, config, wg_conf, outcome)
           fr == Logged(NewFrame("restart", "", None), "save_wireguard_config",
                        outcome, saved.result)
       IN  /\ wg_conf' = saved.file
           /\ IF saved.result = "err"
              THEN Enter(t, "ret", fr, Response(500, "Could not save config", None))
              ELSE Enter(t, "stop", fr, NoResp)
    /\ UNCHANGED <<wireguard_data, data_json, device>>

\* restart_wireguard: its stop
restart_stop(t, outcome) ==
    /\ pc[t] = "stop"
    /\ LET r == stop_wireguard(outcome, device)
       IN  /\ device' = r.device
           /\ IF restart_after_stop(r.result) = "StopFailed"
              THEN /\ pc' = [pc EXCEPT ![t] = "ret"]
                   /\ resp' = [resp EXCEPT ![t] =
                          Response(500, "Could not stop WireGuard", None)]
              ELSE /\ pc' = [pc EXCEPT ![t] = "start"]
                   /\ UNCHANGED resp
           /\ frame' = [frame EXCEPT ![t] =
                  Logged(@, "stop_wireguard", outcome, r.result)]
    /\ UNCHANGED <<wireguard_data, data_json, wg_conf, mutex>>

\* restart_wireguard: its start
restart_start(t, outcome) ==
    /\ pc[t] = "start"
    /\ LET r == start_wireguard(outcome, device)
       IN  /\ device' = r.device
           /\ resp' = [resp EXCEPT ![t] =
                  IF restart_after_start(r.result) = "StartFailed"
                  THEN Response(500, "Could not start WireGuard", None)
                  ELSE Response(200, "", None)]
           /\ frame' = [frame EXCEPT ![t] =
                  Logged(@, "start_wireguard", outcome, r.result)]
    /\ pc' = [pc EXCEPT ![t] = "ret"]
    /\ UNCHANGED <<wireguard_data, data_json, wg_conf, mutex>>

\* wireguard_reload up to reload_wireguard: the rendered config is written;
\* on failure the handler returns at once
wireguard_reload(t, outcome) ==
    /\ lock_acquirable(t)
    /\ LET saved == save_wireguard_config(wireguard_data, config, wg_conf, outcome)
           fr == Logged(NewFrame("reload", "", None), "save_wireguard_config",
                        outcome, saved.result)
       IN  /\ wg_conf' = saved.file
           /\ IF saved.result = "err"
              THEN Enter(t, "ret", fr, Response(500, "Could not save config", None))
              ELSE Enter(t, "reload", fr, NoResp)
    /\ UNCHANGED <<wireguard_data, data_json, device>>

\* wireguard_reload: its reload_wireguard
reload_tool(t, outcome) ==
    /\ pc[t] = "reload"
    /\ LET r == reload_wireguard(outcome, device)
       IN  /\ device' = r.device
           /\ resp' = [resp EXCEPT ![t] =
                  IF r.result = "err"
                  THEN Response(500, "Could not reload WireGuard", None)
                  ELSE Response(200, "", None)]
           /\ frame' = [frame EXCEPT ![t] =
                  Logged(@, "reload_wireguard", outcome, r.result)]
    /\ pc' = [pc EXCEPT ![t] = "ret"]
    /\ UNCHANGED <<wireguard_data, data_json, wg_conf, mutex>>

\* wireguard_start
wireguard_start(t, outcome) ==
    /\ lock_acquirable(t)
    /\ LET r == start_wireguard(outcome, device)
       IN  /\ device' = r.device
           /\ Enter(t, "ret", Logged(NewFrame("start", "", None),
                                     "start_wireguard", outcome, r.result),
                    IF r.result = "err"
                    THEN Response(500, "Could not start WireGuard", None)
                    ELSE Response(200, "", None))
    /\ UNCHANGED <<wireguard_data, data_json, wg_conf>>

\* wireguard_stop
wireguard_stop(t, outcome) ==
    /\ lock_acquirable(t)
    /\ LET r == stop_wireguard(outcome, device)
       IN  /\ device' = r.device
           /\ Enter(t, "ret", Logged(NewFrame("stop", "", None),
                                     "stop_wireguard", outcome, r.result),
                    IF r.result = "err"
                    THEN Response(500, "Could not stop WireGuard", None)
                    ELSE Response(200, "", None))
    /\ UNCHANGED <<wireguard_data, data_json, wg_conf>>

\* ================================================================== inputs
\* Request bodies.  A server request with no field set:
NoServerFields ==
    [endpoint |-> None, address |-> None, dns |-> None, listen_port |-> None,
     private_key |-> None, pre_up |-> None, post_up |-> None, pre_down |-> None,
     post_down |-> None, table |-> None, mtu |-> None]
\* the body of /sample, reduced to endpoint, address and key
ServerRequestFull ==
    [NoServerFields EXCEPT
        !.endpoint = Some("endpoint.com:51820"),
        !.address = Some(<<AddrText(<<10, 8, 0, 1>>, Some(24))>>),
        !.private_key = Some("kA")]
\* an empty address list
ServerRequestNoAddress == [ServerRequestFull EXCEPT !.address = Some(<<>>)]
\* a private key that does not parse
ServerRequestBadKey == [ServerRequestFull EXCEPT !.private_key = Some("bad")]

\* Stored client records as PUT bodies give them.  ClientA is the record
\* ClientRequestExplicit creates under ServerRequestFull.
ClientA ==
    [name |-> "alice", uuid |-> "u1", enabled |-> FALSE,
     preshared_key |-> None, public_key |-> "pA",
     server_allowed_ips |-> <<"10.8.0.2/32">>,
     persistent_keep_alive |-> None, private_key |-> "kA",
     address |-> "10.8.0.2/32", client_allowed_ips |-> <<"0.0.0.0">>,
     dns |-> <<>>]
\* ClientB has a public key text that is no key
ClientB ==
    [name |-> "bob", uuid |-> "u2", enabled |-> TRUE,
     preshared_key |-> Some("sA"), public_key |-> "not-a-key",
     server_allowed_ips |-> <<"10.8.0.3/32">>,
     persistent_keep_alive |-> Some(25), private_key |-> "kB",
     address |-> "10.8.0.3/32", client_allowed_ips |-> <<"0.0.0.0/0">>,
     dns |-> <<"1.1.1.1">>]

\* A client request with no field set:
NoClientFields ==
    [name |-> None, uuid |-> None, enabled |-> None,
     generate_preshared_key |-> None, preshared_key |-> None,
     server_allowed_ips |-> None, persistent_keep_alive |-> None,
     private_key |-> None, address |-> None, client_allowed_ips |-> None,
     dns |-> None]
\* explicit uuid and key, no preshared key
ClientRequestExplicit ==
    [NoClientFields EXCEPT
        !.name = Some("alice"), !.uuid = Some("u1"),
        !.private_key = Some("kA"), !.generate_preshared_key = Some(FALSE)]
\* explicit uuid, the required name missing
ClientRequestNoName == [ClientRequestExplicit EXCEPT !.name = None]
\* everything but the name left to the defaults and generators
ClientRequestGenerated == [NoClientFields EXCEPT !.name = Some("dave")]

\* Uuid::new_v4() yields an identifier no stored client has
IsFresh(data, uuid) ==
    \A i \in 1..Len(data.clients) : data.clients[i].uuid # uuid

\* What the generators yield for one conversion
Generated(keys, uuids) == [private_key : keys, uuid : uuids, secret : {"sA"}]

RECURSIVE SeqsUpTo(_, _)
\* the sequences over S of length at most n
SeqsUpTo(S, n) ==
    IF n = 0 THEN {<<>>}
    ELSE LET shorter == SeqsUpTo(S, n - 1)
         IN  shorter \cup {Append(q, x) : q \in shorter, x \in S}

\* A live peer entry of the interface
RawPeerA ==
    [allowed_ips |-> <<"10.8.0.2/32">>, protocol_version |-> Some(1),
     endpoint |-> Some("198.51.100.7:40000"), tx_bytes |-> 1200,
     rx_bytes |-> 3400, last_handshake |-> Some(1700000000)]
\* read_interface_data(): it fails (None), or yields the peers by key
Snapshots == {None, Some([k \in {"pA"} |-> RawPeerA])}

\* ClientC has a well formed key of its own; ClientD a malformed one
ClientC ==
    [ClientA EXCEPT !.name = "carol", !.uuid = "u3", !.enabled = TRUE,
                    !.public_key = "pB", !.private_key = "kB",
                    !.server_allowed_ips = <<"10.8.0.4/32">>,
                    !.address = "10.8.0.4/32"]
ClientD == [ClientB EXCEPT !.name = "dan", !.uuid = "u4", !.public_key = ""]
\* A second live peer entry, one that has never completed a handshake
RawPeerB ==
    [allowed_ips |-> <<"10.8.0.4/32">>, protocol_version |-> None,
     endpoint |-> None, tx_bytes |-> 0, rx_bytes |-> 0, last_handshake |-> None]
\* read_interface_data(): it fails, or yields the peers of any set of keys
PeerSnapshots ==
    {None} \cup {Some([k \in D |-> IF k = "pA" THEN RawPeerA ELSE RawPeerB]) :
                    D \in SUBSET {"pA", "pB"}}

\* First addresses of a stored server: with and without mask, at the octet
\* boundaries, and texts that are no IPv4 address
AllocBases ==
    {AddrText(<<10, 8, 0, 1>>, Some(24)), AddrText(<<10, 8, 0, 1>>, None),
     AddrText(<<10, 8, 0, 255>>, Some(24)), AddrText(<<10, 8, 255, 255>>, Some(16)),
     AddrText(<<10, 8, 0, 256>>, Some(24)),
     [JunkText("fd00::1") EXCEPT !.mask = Some(64)]}
ServerRequestAt(addr) == [ServerRequestFull EXCEPT !.address = Some(<<addr>>)]

\* Server requests: the key left to the generator, the address left to the
\* host's interface, the endpoint left to the stored server
ServerRequestNoKey == [ServerRequestFull EXCEPT !.private_key = None]
ServerRequestHostAddress == [ServerRequestFull EXCEPT !.address = None]
ServerRequestNoEndpoint == [ServerRequestFull EXCEPT !.endpoint = None]
\* a request that sets port, hooks, DNS, table and MTU itself
ServerRequestCustom ==
    [ServerRequestFull EXCEPT
        !.listen_port = Some(51821), !.dns = Some(<<"1.1.1.1">>),
        !.pre_up = Some(<<"echo pre-up ", "{WIREGUARD_INTERFACE}">>),
        !.post_up = Some(<<"echo post-up">>),
        !.pre_down = Some(<<"echo pre-down">>),
        !.post_down = Some(<<"echo post-down ", "{NETWORK_INTERFACE}">>),
        !.table = Some("off"), !.mtu = Some(1420), !.private_key = Some("kB")]
ServerBodies ==
    {None, Some(ServerRequestFull), Some(ServerRequestNoAddress),
     Some(ServerRequestCustom),
     Some(ServerRequestBadKey), Some(ServerRequestNoKey),
     Some(ServerRequestHostAddress), Some(ServerRequestNoEndpoint),
     Some([ServerRequestBadKey EXCEPT !.address = None]),
     Some([ServerRequestBadKey EXCEPT !.endpoint = None])}

\* Clients for the renderer: every combination of enabled, preshared key and
\* keepalive, a client with a key of its own, and a disabled client whose name
\* spans two lines
RenderClients ==
    {[ClientA EXCEPT !.enabled = e, !.preshared_key = p, !.persistent_keep_alive = k] :
        e \in BOOLEAN, p \in {None, Some("sA")}, k \in {None, Some(25)}}
ClientE == [ClientA EXCEPT !.name = TwoLineText, !.uuid = "u5"]
RenderLists ==
    {<<>>, <<ClientC>>, <<ClientE>>, <<ClientA, ClientC>>}
        \cup {<<c>> : c \in RenderClients}

\* create-client requests: each of uuid, enabled, address, server-side allowed
\* IPs and preshared key given or left out, the generate flag unset, true or
\* false
CreateBodies ==
    {[ClientRequestGenerated EXCEPT
         !.uuid = u, !.enabled = e, !.address = a, !.server_allowed_ips = s,
         !.preshared_key = p, !.generate_preshared_key = g] :
        u \in {None, Some("u1")}, e \in {None, Some(TRUE)},
        a \in {None, Some("10.9.9.9/32")}, s \in {None, Some(<<"10.9.9.0/24">>)},
        p \in {None, Some("sB")}, g \in {None, Some(TRUE), Some(FALSE)}}

\* a client request whose private key does not parse
ClientRequestBadKey == [ClientRequestExplicit EXCEPT !.private_key = Some("bad")]

\* a stored client with a preshared key and a keep-alive
ClientF ==
    [ClientC EXCEPT !.preshared_key = Some("sA"), !.persistent_keep_alive = Some(25)]

\* a request that sets every field, with a key other than the generator's,
\* and a request that sets only the address
ServerRequestCustomA == [ServerRequestCustom EXCEPT !.private_key = Some("kA")]
ServerRequestAddressOnly ==
    [NoServerFields EXCEPT !.address = Some(<<AddrText(<<10, 8, 0, 1>>, Some(24))>>)]
\* a host whose tunnel interface has an address no request gives
UpsertHost == Some(<<<<10, 9, 0, 1>>>>)

\* =========================================================== specifications
\* The dataset handlers, one request at a time, every persist outcome.
StoreNext ==
    \E t \in {1} :
        \/ \E body \in {None, Some(ServerRequestFull), Some(ServerRequestNoAddress),
                        Some(ServerRequestBadKey)} :
              put_wireguard_server(t, body, "kB", None)
        \/ delete_wireguard_server(t)
        \/ \E body \in SeqsUpTo({ClientA, ClientB}, MaxClients) :
              put_wireguard_clients(t, body)
        \/ \E uuid \in {"u1", "u2"}, body \in {ClientA, ClientB} :
              put_wireguard_client(t, uuid, body)
        \/ \E body \in {ClientRequestExplicit, ClientRequestNoName},
              host \in {None, Some(<<<<10, 8, 0, 1>>>>)},
              gen \in Generated({"kB"}, {"u3"}) :
              /\ Len(wireguard_data.clients) < MaxClients
              /\ IsSome(body.uuid) \/ IsFresh(wireguard_data, gen.uuid)
              /\ post_wireguard_clients(t, body, host, gen, TRUE)
        \/ \E outcome \in WriteOutcomes : save_and_respond(t, outcome)
        \/ lock_poisoned(t)
        \/ return(t)

\* The device plays no part here: it is taken to be down
InitStore == Init /\ device = "down"

SpecStore == InitStore /\ [][StoreNext]_vars

\* The control handlers, one request at a time, every outcome of the config
\* write and of the tool, with the dataset changing between them.
ControlNext ==
    \E t \in {1} :
        \/ \E body \in {None, Some(ServerRequestFull)} :
              put_wireguard_server(t, body, "kB", None)
        \/ \E body \in {<<>>, <<ClientA>>, <<ClientB>>} :
              put_wireguard_clients(t, body)
        \/ \E outcome \in WriteOutcomes : save_and_respond(t, outcome)
        \/ \E outcome \in WriteOutcomes : wireguard_restart(t, outcome)
        \/ \E outcome \in ToolOutcomes : restart_stop(t, outcome)
        \/ \E outcome \in ToolOutcomes : restart_start(t, outcome)
        \/ \E outcome \in WriteOutcomes : wireguard_reload(t, outcome)
        \/ \E outcome \in ToolOutcomes : reload_tool(t, outcome)
        \/ \E outcome \in ToolOutcomes : wireguard_start(t, outcome)
        \/ \E outcome \in ToolOutcomes : wireguard_stop(t, outcome)
        \/ return(t)

SpecControl == Init /\ [][ControlNext]_vars

\* Every handler, on every thread of the runtime.
Next ==
    \E t \in Threads :
        \/ get_wireguard_server(t)
        \/ put_wireguard_server(t, Some(ServerRequestFull), "kB", None)
        \/ delete_wireguard_server(t)
        \/ get_wireguard_clients(t)
        \/ put_wireguard_clients(t, <<ClientA>>)
        \/ get_wireguard_client(t, "u1")
        \/ put_wireguard_client(t, "u1", ClientA)
        \/ \E host \in {Some(<<>>), Some(<<<<10, 8, 0, 1>>>>)},
              gen \in Generated({"kB"}, {"u3"}) :
              /\ Len(wireguard_data.clients) < MaxClients
              /\ post_wireguard_clients(t, ClientRequestExplicit, host, gen, TRUE)
        \/ \E raw \in Snapshots : get_wireguard_peers(t, raw)
        \/ \E outcome \in {"ok", "create_failed"} : save_and_respond(t, outcome)
        \/ \E outcome \in {"ok", "create_failed"} : wireguard_restart(t, outcome)
        \/ \E outcome \in ToolOutcomes : restart_stop(t, outcome)
        \/ \E outcome \in ToolOutcomes : restart_start(t, outcome)
        \/ \E outcome \in {"ok", "create_failed"} : wireguard_reload(t, outcome)
        \/ \E outcome \in ToolOutcomes : reload_tool(t, outcome)
        \/ \E outcome \in ToolOutcomes : wireguard_start(t, outcome)
        \/ \E outcome \in ToolOutcomes : wireguard_stop(t, outcome)
        \/ lock_poisoned(t)
        \/ return(t)

Spec == Init /\ [][Next]_vars

\* get-live-peers over every stored client list and every snapshot.  The
\* lists are those replace-all-clients stores.
MaxStored == 3
InitPeers ==
    /\ wireguard_data \in
           [server : {None},
            clients : SeqsUpTo({ClientA, ClientB, ClientC, ClientD}, MaxStored)]
    /\ data_json = JsonFile(wireguard_data)
    /\ wg_conf = UnwrittenText
    /\ device = "up"
    /\ mutex = [holder |-> 0, poisoned |-> FALSE]
    /\ pc = [t \in Threads |-> "idle"]
    /\ frame = [t \in Threads |-> IdleFrame]
    /\ resp = [t \in Threads |-> NoResp]

PeersNext ==
    \E t \in {1} :
        \/ \E raw \in PeerSnapshots : get_wireguard_peers(t, raw)
        \/ return(t)

SpecPeers == InitPeers /\ [][PeersNext]_vars

\* create-client over every base address, with the host's interface found or
\* not, on a build with and without overflow checks.
AllocNext ==
    \E t \in {1} :
        \/ \E addr \in AllocBases :
              put_wireguard_server(t, Some(ServerRequestAt(addr)), "kB", None)
        \/ delete_wireguard_server(t)
        \/ \E body \in {<<>>, <<ClientA>>} : put_wireguard_clients(t, body)
        \/ \E host \in HostInterfaces, gen \in Generated({"kB"}, {"u3", "u4"}),
              overflow_checks \in BOOLEAN :
              /\ Len(wireguard_data.clients) < MaxClients
              /\ IsFresh(wireguard_data, gen.uuid)
              /\ post_wireguard_clients(t, ClientRequestGenerated, host, gen,
                                        overflow_checks)
        \/ save_and_respond(t, "ok")
        \/ lock_poisoned(t)
        \/ return(t)

SpecAlloc == InitStore /\ [][AllocNext]_vars

\* upsert-server and delete-server over every request shape and every answer
\* of the host.
ServerNext ==
    \E t \in {1} :
        \/ \E body \in ServerBodies, host \in HostInterfaces :
              put_wireguard_server(t, body, "kB", host)
        \/ delete_wireguard_server(t)
        \/ \E outcome \in {"ok", "create_failed"} : save_and_respond(t, outcome)
        \/ lock_poisoned(t)
        \/ return(t)

SpecServer == InitStore /\ [][ServerNext]_vars

\* The renderers: the device config written by reload and restart for every
\* stored dataset, and the client-facing text of every stored client.
RenderNext ==
    \E t \in {1} :
        \/ \E body \in {Some(ServerRequestFull), Some(ServerRequestNoKey)} :
              put_wireguard_server(t, body, "kB", None)
        \/ \E body \in RenderLists : put_wireguard_clients(t, body)
        \/ save_and_respond(t, "ok")
        \/ \E outcome \in {"ok", "create_failed"} : wireguard_reload(t, outcome)
        \/ reload_tool(t, "exit_zero")
        \/ wireguard_restart(t, "ok")
        \/ restart_stop(t, "exit_zero")
        \/ restart_start(t, "exit_zero")
        \/ \E uuid \in {"u1", "u3", "u5"} : client_config(t, uuid)
        \/ return(t)

SpecRender == InitStore /\ [][RenderNext]_vars

\* create-client over every request shape, on a stored server, with no client
\* or one client stored before it.
CreateNext ==
    \E t \in {1} :
        \/ put_wireguard_server(t, Some(ServerRequestFull), "kB", None)
        \/ \E body \in {<<>>, <<ClientA>>} : put_wireguard_clients(t, body)
        \/ \E body \in CreateBodies, gen \in Generated({"kB"}, {"u3"}) :
              /\ wireguard_data.clients \in {<<>>, <<ClientA>>}
              /\ IsFresh(wireguard_data, gen.uuid)
              /\ post_wireguard_clients(t, body, None, gen, TRUE)
        \/ save_and_respond(t, "ok")
        \/ return(t)

SpecCreate == InitStore /\ [][CreateNext]_vars

\* Every handler that can answer an error, with the requests, host answers
\* and I/O outcomes that make it do so.
ErrorsNext ==
    \E t \in {1} :
        \/ \E body \in {Some(ServerRequestFull), Some(ServerRequestNoEndpoint),
                        Some(ServerRequestAt(JunkText("fd00::1"))),
                        Some([ServerRequestBadKey EXCEPT !.address = None])},
              host \in {None, Some(<<<<10, 8, 0, 1>>>>)} :
              put_wireguard_server(t, body, "kB", host)
        \/ delete_wireguard_server(t)
        \/ put_wireguard_clients(t, <<ClientA>>)
        \/ \E uuid \in {"u1", "u2"} : get_wireguard_client(t, uuid)
        \/ \E uuid \in {"u1", "u2"} : put_wireguard_client(t, uuid, ClientA)
        \/ \E body \in {ClientRequestExplicit, ClientRequestNoName, ClientRequestBadKey},
              host \in HostInterfaces, gen \in Generated({"kB"}, {"u1"}) :
              /\ wireguard_data.clients \in {<<>>, <<ClientA>>}
              /\ post_wireguard_clients(t, body, host, gen, TRUE)
        \/ \E raw \in Snapshots : get_wireguard_peers(t, raw)
        \/ \E outcome \in {"ok", "create_failed"} : save_and_respond(t, outcome)
        \/ \E outcome \in {"ok", "create_failed"} : wireguard_restart(t, outcome)
        \/ \E outcome \in {"launch_failed", "exit_zero"} : restart_stop(t, outcome)
        \/ restart_start(t, "launch_failed")
        \/ wireguard_reload(t, "ok")
        \/ reload_tool(t, "launch_failed")
        \/ wireguard_start(t, "launch_failed")
        \/ wireguard_stop(t, "launch_failed")
        \/ lock_poisoned(t)
        \/ return(t)

SpecErrors == InitStore /\ [][ErrorsNext]_vars

\* The process starting over what data.json holds, with the handlers that
\* change the dataset and save it in between.
InitLoad ==
    /\ wireguard_data = EmptyData
    /\ data_json \in {MissingJson, BlankJson}
    /\ wg_conf = UnwrittenText
    /\ device = "down"
    /\ mutex = [holder |-> 0, poisoned |-> FALSE]
    /\ pc = [t \in Threads |-> "exited"]
    /\ frame = [t \in Threads |-> IdleFrame]
    /\ resp = [t \in Threads |-> NoResp]

LoadNext ==
    \E t \in {1} :
        \/ \E read \in ReadOutcomes, cut \in Cuts, write \in WriteOutcomes :
              main(t, read, cut, write)
        \/ \E body \in {None, Some(ServerRequestFull), Some(ServerRequestCustom)} :
              put_wireguard_server(t, body, "kB", None)
        \/ \E body \in {<<>>, <<ClientA>>, <<ClientA, ClientF>>} :
              put_wireguard_clients(t, body)
        \/ \E outcome \in WriteOutcomes : save_and_respond(t, outcome)
        \/ return(t)

SpecLoad == InitLoad /\ [][LoadNext]_vars

\* upsert-server over a stored server and stored clients: requests that
\* set every field, only some, or none, and the null body.
UpsertNext ==
    \E t \in {1} :
        \/ \E body \in {None, Some(ServerRequestCustomA), Some(ServerRequestFull),
                        Some(ServerRequestAddressOnly), Some(NoServerFields)} :
              put_wireguard_server(t, body, "kB", UpsertHost)
        \/ \E body \in {<<>>, <<ClientA>>, <<ClientA, ClientF>>} :
              put_wireguard_clients(t, body)
        \/ \E outcome \in {"ok", "create_failed"} : save_and_respond(t, outcome)
        \/ return(t)

SpecUpsert == InitStore /\ [][UpsertNext]_vars

\* ================================================================== claims
\* What the claims read of a handler in flight
Uuids(clients) == {clients[i].uuid : i \in 1..Len(clients)}
Pre(t) == Unwrap(frame[t].pre)
Mutating == {"put_server", "delete_server", "put_clients", "put_client",
             "post_clients"}
\* the handler of t has attempted no persist and no tool run
NoIO(t) == frame[t].io = <<>>
\* the handler of t found the dataset and its file as they are now
DatasetUntouched(t) ==
    /\ wireguard_data = Pre(t).mem
    /\ data_json = Pre(t).disk
\* the last persist of the handler of t failed
PersistFailed(t) ==
    /\ Len(frame[t].io) > 0
    /\ frame[t].io[Len(frame[t].io)].call = "save_json_file"
    /\ frame[t].io[Len(frame[t].io)].result = "err"

\* C1: no two stored clients have the same UUID, in every state reachable by
\* create-client, update-client and replace-all-clients from the empty dataset.
C1_UniqueUuids ==
    \A i, j \in 1..Len(wireguard_data.clients) :
        i # j => wireguard_data.clients[i].uuid # wireguard_data.clients[j].uuid

\* create-client of t carries an explicit UUID that a stored client has
C2_Duplicate(t) ==
    /\ frame[t].op = "post_clients"
    /\ IsSome(Unwrap(frame[t].body).uuid)
    /\ Unwrap(Unwrap(frame[t].body).uuid) \in Uuids(Pre(t).mem.clients)

\* C2 as stated: create-client with an explicit UUID already stored fails with
\* 409 and leaves the dataset and its file unchanged, with no persist attempted.
C2_ConflictAlways ==
    \A t \in Threads :
        C2_Duplicate(t) =>
            /\ pc[t] = "ret" /\ resp[t].status = 409
            /\ DatasetUntouched(t) /\ NoIO(t)

\* C2 amended: such a create-client never succeeds and never touches the
\* dataset, its file or the persist; it answers 409 when the rest of the
\* request converts (name given, key parsable, base address derivable) and the
\* conversion's own failure otherwise: 500 or the handler's abort when the
\* base address cannot be derived, else 400 for a missing name or a bad key.
C2_ConflictUnlessInvalid ==
    \A t \in Threads :
        C2_Duplicate(t) =>
            LET body == Unwrap(frame[t].body)
                server == Pre(t).mem.server
                valid == /\ IsSome(body.name)
                         /\ IsSome(body.private_key)
                              => Unwrap(body.private_key) \in PrivKeys
                derivable == /\ IsSome(server)
                             /\ Len(Unwrap(server).address) > 0
                             /\ Unwrap(server).address[1].junk = ""
            IN  /\ pc[t] \in {"ret", "panicked"}
                /\ DatasetUntouched(t) /\ NoIO(t)
                /\ pc[t] = "ret" => resp[t].status \in {400, 409, 500}
                /\ derivable /\ valid => pc[t] = "ret" /\ resp[t].status = 409
                /\ derivable /\ ~valid => pc[t] = "ret" /\ resp[t].status = 400
                /\ pc[t] = "ret" /\ resp[t].status = 409 => valid
                /\ pc[t] = "ret" /\ resp[t].status = 400 => ~valid

\* C2 witness: a well-formed duplicate create-client answered 409 with a
\* non-empty client list
C2_Witness ==
    \E t \in Threads :
        /\ C2_Duplicate(t) /\ pc[t] = "ret" /\ resp[t].status = 409
        /\ IsSome(wireguard_data.server)

\* C3: update-client for an identifier no stored client has answers 404 and
\* leaves the client list and the dataset file unchanged, with no persist.
C3_UnknownIsNotFound ==
    \A t \in Threads :
        (frame[t].op = "put_client" /\ frame[t].uuid \notin Uuids(Pre(t).mem.clients))
            => /\ pc[t] = "ret" /\ resp[t].status = 404
               /\ DatasetUntouched(t) /\ NoIO(t)

\* C3 witness: an unknown identifier against a non-empty client list
C3_Witness ==
    \E t \in Threads :
        /\ frame[t].op = "put_client" /\ pc[t] = "ret" /\ resp[t].status = 404
        /\ Len(wireguard_data.clients) > 0

\* C4: a mutating operation that returns success leaves the dataset file
\* holding exactly the in-memory dataset, written by that operation.
C4_SuccessMeansPersisted ==
    \A t \in Threads :
        (frame[t].op \in Mutating /\ pc[t] = "ret" /\ resp[t].status = 200)
            => /\ data_json = JsonFile(wireguard_data)
               /\ Len(frame[t].io) = 1
               /\ frame[t].io[1].call = "save_json_file"
               /\ frame[t].io[1].result = "ok"

\* C4 witness: a success that also writes out an earlier mutation whose
\* persist had failed
C4_Witness ==
    \E t \in Threads :
        /\ frame[t].op = "put_client" /\ pc[t] = "ret" /\ resp[t].status = 200
        /\ Pre(t).disk # JsonFile(Pre(t).mem)
        /\ Pre(t).disk.state = "written"
        /\ Pre(t).disk.data.server # wireguard_data.server

\* The dataset a mutating handler leaves in memory, from its request and the
\* dataset it found
Applied(t) ==
    LET fr == frame[t]
        mem == Pre(t).mem
    IN  CASE fr.op = "put_server" -> [mem EXCEPT !.server = Unwrap(fr.local)]
          [] fr.op = "delete_server" -> [mem EXCEPT !.server = None]
          [] fr.op = "put_clients" -> [mem EXCEPT !.clients = Unwrap(fr.body)]
          [] fr.op = "put_client" ->
                [mem EXCEPT !.clients =
                    [i \in 1..Len(mem.clients) |->
                        IF /\ mem.clients[i].uuid = fr.uuid
                           /\ \A j \in 1..(i - 1) : mem.clients[j].uuid # fr.uuid
                        THEN Unwrap(fr.body) ELSE mem.clients[i]]]
          [] fr.op = "post_clients" ->
                [mem EXCEPT !.clients = Append(mem.clients, Unwrap(fr.local))]

ToolCalls == {"stop_wireguard", "start_wireguard", "reload_wireguard"}
Called(t, call) == \E i \in 1..Len(frame[t].io) : frame[t].io[i].call = call
CallCount(t, call) ==
    Cardinality({i \in 1..Len(frame[t].io) : frame[t].io[i].call = call})

C7_ToolFailureIsReported ==
    \A t \in Threads :
        (/\ frame[t].op \in {"start", "stop", "restart", "reload"}
         /\ pc[t] = "ret"
         /\ \E i \in 1..Len(frame[t].io) :
                /\ frame[t].io[i].call \in ToolCalls
                /\ frame[t].io[i].outcome \in {"launch_failed", "exit_nonzero"})
            => resp[t].status = 500

\* C8: in restart, when the stop tool has run and exited with status zero and
\* the start tool then could not be launched or exited with a nonzero status,
\* the answer is the start error, the start ran once, and the device is down.
C8_StartFailureLeavesDown ==
    \A t \in Threads :
        (/\ frame[t].op = "restart" /\ pc[t] = "ret"
         /\ \E i \in 1..Len(frame[t].io) :
                /\ frame[t].io[i].call = "stop_wireguard"
                /\ frame[t].io[i].outcome = "exit_zero"
         /\ \E i \in 1..Len(frame[t].io) :
                /\ frame[t].io[i].call = "start_wireguard"
                /\ frame[t].io[i].outcome \in {"launch_failed", "exit_nonzero"})
            => /\ resp[t] = Response(500, "Could not start WireGuard", None)
               /\ CallCount(t, "start_wireguard") = 1
               /\ device = "down"

\* The text save_wireguard_config leaves for a dataset
Rendering(data) == TextFile(UnwrapOr(get_server_config(data, config), ""))

\* C9: whenever reload or restart is at, or past, a tool run, the config file
\* holds the rendering of the in-memory dataset, written by that operation and
\* with the dataset as the operation found it; a failed write of the config
\* file ends the operation with an error and no tool run.
C9_FreshConfigBeforeTool ==
    \A t \in Threads :
        frame[t].op \in {"restart", "reload"} =>
            LET io == frame[t].io
            IN  /\ io[1].call = "save_wireguard_config"
                /\ (pc[t] \in {"stop", "start", "reload"}
                      \/ \E i \in 1..Len(io) : io[i].call \in ToolCalls) =>
                       /\ io[1].outcome = "ok"
                       /\ wg_conf = Rendering(wireguard_data)
                       /\ wireguard_data = Pre(t).mem
                /\ io[1].outcome # "ok" =>
                       /\ pc[t] = "ret" /\ resp[t].status = 500
                       /\ Len(io) = 1

\* C9 witness: a reload about to run the tool on a config that it has just
\* rendered anew from a dataset with a server and a client
C9_Witness ==
    \E t \in Threads :
        /\ frame[t].op = "reload" /\ pc[t] = "reload"
        /\ IsSome(wireguard_data.server) /\ Len(wireguard_data.clients) > 0
        /\ Pre(t).conf.state = "written" /\ Pre(t).conf # wg_conf

\* C10: a handler that is between its lock and its return holds the mutex, so
\* at most one is; and what it works on is what it found and did itself: no
\* other handler has touched the dataset, its file or the config file.
C10_OneOperationAtATime ==
    /\ \A t \in Threads :
           pc[t] \notin {"idle", "panicked"} => mutex.holder = t
    /\ Cardinality({t \in Threads : pc[t] \notin {"idle", "panicked"}}) <= 1
    /\ \A t \in Threads :
           /\ pc[t] = "save_json" =>
                  wireguard_data = Applied(t) /\ data_json = Pre(t).disk
           /\ pc[t] \in {"stop", "start", "reload"} =>
                  /\ wireguard_data = Pre(t).mem /\ data_json = Pre(t).disk
                  /\ wg_conf = Rendering(Pre(t).mem)
           /\ (pc[t] = "ret" /\ frame[t].op = "get_clients") =>
                  resp[t].body = Some(wireguard_data.clients)
           /\ (pc[t] = "ret" /\ frame[t].op = "get_server") =>
                  resp[t].body = Some(wireguard_data.server)

\* C10 witness: a handler in the middle of its operation, mutation applied and
\* not yet saved, after another thread has changed the dataset before it
C10_Witness ==
    \E t, u \in Threads :
        /\ t # u /\ pc[t] = "save_json" /\ pc[u] = "idle"
        /\ mutex.holder = t
        /\ Pre(t).mem # EmptyData /\ wireguard_data # Pre(t).mem

\* What get-live-peers was given: the snapshot its read returned, and whether
\* every stored key text is a key
Snapshot(t) == Unwrap(Unwrap(frame[t].body))
PeersAnswered(t) ==
    /\ frame[t].op = "get_peers" /\ pc[t] = "ret"
    /\ IsSome(Unwrap(frame[t].body))
WellFormed(c) == IsSome(KeyFromStr(c.public_key))
IsLive(c, snapshot) == Unwrap(KeyFromStr(c.public_key)) \in DOMAIN snapshot

\* C11: when the snapshot was read and every stored public key is well formed,
\* get-live-peers answers the stored clients whose key is in the snapshot, in
\* stored order, each with the counters, handshake time, protocol version and
\* endpoint of its snapshot entry, and nothing for a client that is absent.
C11_LivePeersOnly ==
    \A t \in Threads :
        (/\ PeersAnswered(t)
         /\ \A i \in 1..Len(wireguard_data.clients) :
                WellFormed(wireguard_data.clients[i]))
            => LET snapshot == Snapshot(t)
                   live == SelectSeq(wireguard_data.clients,
                                     LAMBDA c : IsLive(c, snapshot))
                   peers == Unwrap(resp[t].body)
               IN  /\ resp[t].status = 200
                   /\ Len(peers) = Len(live)
                   /\ \A i \in 1..Len(live) :
                          LET entry == snapshot[Unwrap(KeyFromStr(live[i].public_key))]
                          IN  /\ peers[i].uuid = live[i].uuid
                              /\ peers[i].name = live[i].name
                              /\ peers[i].address = live[i].address
                              /\ peers[i].dns = live[i].dns
                              /\ peers[i].transmitted_bytes = entry.tx_bytes
                              /\ peers[i].received_bytes = entry.rx_bytes
                              /\ peers[i].last_handshake = entry.last_handshake
                              /\ peers[i].protocol_version = entry.protocol_version
                              /\ peers[i].endpoint = entry.endpoint
                              /\ peers[i].server_allowed_ips = entry.allowed_ips

\* C11 witness: three stored clients with well formed keys, the middle one
\* absent from the snapshot, answered with the two others in stored order
C11_Witness ==
    \E t \in Threads :
        /\ PeersAnswered(t)
        /\ wireguard_data.clients = <<ClientC, ClientA, ClientC>>
        /\ DOMAIN Snapshot(t) = {"pB"}
        /\ Len(Unwrap(resp[t].body)) = 2

\* C12: when the snapshot was read and some stored client has a malformed
\* public key, get-live-peers answers an error that names the first such
\* client and no peer list, wherever that client stands and whoever is live.
C12_MalformedKeyFailsFast ==
    \A t \in Threads :
        (/\ PeersAnswered(t)
         /\ \E i \in 1..Len(wireguard_data.clients) :
                ~WellFormed(wireguard_data.clients[i]))
            => LET bad == SelectSeq(wireguard_data.clients,
                                    LAMBDA c : ~WellFormed(c))
               IN  /\ resp[t].status = 500
                   /\ resp[t].body = None
                   /\ resp[t].message =
                          "Could not get peers: InvalidPublicKey:" \o bad[1].name

\* C12 witness: the malformed client stands last, after two live clients
C12_Witness ==
    \E t \in Threads :
        /\ PeersAnswered(t)
        /\ wireguard_data.clients = <<ClientA, ClientC, ClientD>>
        /\ DOMAIN Snapshot(t) = {"pA", "pB"}
        /\ resp[t].status = 500

\* What create-client found: the stored server's first address as a dotted
\* quad (None when there is no server, no address or no IPv4 text)
CreateClient(t) == frame[t].op = "post_clients"
FoundBase(t) ==
    LET server == Pre(t).mem.server
    IN  IF IsNone(server) \/ Len(Unwrap(server).address) = 0 THEN None
        ELSE Ipv4FromStr(StripMask(Unwrap(server).address[1]))
\* a.b.c.(d+1)/32 for d < 255, a.b.(c+1).0/32 for d = 255
NextAddressText(ip) ==
    ToString(ip[1]) \o "." \o ToString(ip[2]) \o "."
        \o (IF ip[4] < 255
            THEN ToString(ip[3]) \o "." \o ToString(ip[4] + 1)
            ELSE ToString(ip[3] + 1) \o ".0")
        \o "/32"

\* C13: create-client without an explicit address, on a stored server whose
\* first address is a.b.c.d (mask or not) and not a.b.255.255, gives the
\* client a.b.c.(d+1)/32, or a.b.(c+1).0/32 when d = 255, whatever clients
\* are stored: 10.8.0.1/24 gives 10.8.0.2/32.
C13_AddressFromServerOnly ==
    \A t \in Threads :
        (/\ CreateClient(t)
         /\ IsNone(Unwrap(frame[t].body).address)
         /\ IsSome(FoundBase(t))
         /\ ~(Unwrap(FoundBase(t))[3] = 255 /\ Unwrap(FoundBase(t))[4] = 255))
            => /\ pc[t] # "panicked"
               /\ IsSome(frame[t].local) =>
                      LET new_client == Unwrap(frame[t].local)
                      IN  /\ new_client.address = NextAddressText(Unwrap(FoundBase(t)))
                          /\ new_client.server_allowed_ips = <<new_client.address>>
                          /\ AddrToString(Unwrap(Pre(t).mem.server).address[1])
                                 \in {"10.8.0.1/24", "10.8.0.1"}
                                 => new_client.address = "10.8.0.2/32"
                          /\ AddrToString(Unwrap(Pre(t).mem.server).address[1])
                                 = "10.8.0.255/24"
                                 => new_client.address = "10.8.1.0/32"

\* C13 witness: the second of two successive create-client calls on
\* 10.8.0.1/24 has succeeded, and both clients hold 10.8.0.2/32
C13_Witness ==
    \E t \in Threads :
        /\ CreateClient(t) /\ pc[t] = "ret" /\ resp[t].status = 200
        /\ Len(wireguard_data.clients) = 2
        /\ wireguard_data.clients[1].name = "dave"
        /\ wireguard_data.clients[1].address = "10.8.0.2/32"
        /\ wireguard_data.clients[2].address = "10.8.0.2/32"
        /\ wireguard_data.clients[1].uuid # wireguard_data.clients[2].uuid

\* C14: create-client on a stored server whose first address is a.b.255.255
\* answers an error, produces no client and leaves the dataset as it was.
C14_BoundaryIsAnError ==
    \A t \in Threads :
        (/\ CreateClient(t)
         /\ IsNone(Unwrap(frame[t].body).address)
         /\ IsSome(FoundBase(t))
         /\ Unwrap(FoundBase(t))[3] = 255 /\ Unwrap(FoundBase(t))[4] = 255)
            => /\ pc[t] = "ret"
               /\ resp[t].status \in {400, 500}
               /\ IsNone(frame[t].local)
               /\ wireguard_data = Pre(t).mem

\* C15: create-client with no server stored and the tunnel interface not found
\* on the host answers a configuration error; with a stored server whose first
\* address, mask stripped, is no IPv4 address it answers an invalid-address
\* error; either way no client is added and no persist is attempted.
C15_UnderivableBaseFails ==
    \A t \in Threads :
        CreateClient(t) =>
            LET server == Pre(t).mem.server
                failed(err) ==
                    /\ pc[t] = "ret"
                    /\ resp[t] = Response(500, "Could not create client: " \o err, None)
                    /\ IsNone(frame[t].local)
                    /\ NoIO(t)
                    /\ DatasetUntouched(t)
            IN  /\ (IsNone(server) /\ frame[t].host = Some(None))
                       => failed(ErrConfiguration)
                /\ (/\ IsSome(server)
                    /\ Len(Unwrap(server).address) > 0
                    /\ IsNone(FoundBase(t)))
                       => failed(ErrInvalidServerAddress)

\* C15 witness: a create-client answered with the invalid-address error on a
\* server whose first address is an IPv6 text with a mask, a client stored
C15_Witness ==
    \E t \in Threads :
        /\ CreateClient(t) /\ pc[t] = "ret"
        /\ IsSome(Pre(t).mem.server)
        /\ Unwrap(Pre(t).mem.server).address[1].junk = "fd00::1"
        /\ Len(wireguard_data.clients) = 1
        /\ resp[t].status = 500

\* C16 as stated: every stored server has the public key derived from its
\* private key, and an upsert whose supplied private key cannot be parsed is
\* answered with status 400 and leaves the stored server as it was.
C16_BadKeyIsBadRequest ==
    /\ IsSome(wireguard_data.server) =>
           Unwrap(wireguard_data.server).public_key
               = Pubkey(Unwrap(wireguard_data.server).private_key)
    /\ \A t \in Threads :
           (/\ frame[t].op = "put_server"
            /\ IsSome(Unwrap(frame[t].body))
            /\ IsSome(Unwrap(Unwrap(frame[t].body)).private_key)
            /\ ~PrivkeyParseOk(Unwrap(Unwrap(Unwrap(frame[t].body)).private_key)))
               => /\ pc[t] = "ret"
                  /\ resp[t].status = 400
                  /\ wireguard_data.server = Pre(t).mem.server

\* C16: every stored server has a private key that parses and the public key
\* derived from it, supplied or generated.  An upsert whose supplied private
\* key cannot be parsed never succeeds and leaves the stored server and the
\* file as they were, with no persist attempted; it is answered with status
\* 400, except that with the address left out the host's interface is asked
\* first: status 500 when it is not found, no answer when it has no address.
C16_PublicKeyDerived ==
    /\ IsSome(wireguard_data.server) =>
           /\ PrivkeyParseOk(Unwrap(wireguard_data.server).private_key)
           /\ Unwrap(wireguard_data.server).public_key
                  = Pubkey(Unwrap(wireguard_data.server).private_key)
    /\ \A t \in Threads :
           (/\ frame[t].op = "put_server"
            /\ IsSome(Unwrap(frame[t].body))
            /\ IsSome(Unwrap(Unwrap(frame[t].body)).private_key)
            /\ ~PrivkeyParseOk(Unwrap(Unwrap(Unwrap(frame[t].body)).private_key)))
               => LET body == Unwrap(Unwrap(frame[t].body))
                      host == Unwrap(frame[t].host)
                      asked == IsNone(body.address)
                  IN  /\ pc[t] \in {"ret", "panicked"}
                      /\ DatasetUntouched(t)
                      /\ NoIO(t)
                      /\ pc[t] = "ret" => resp[t].status \in {400, 500}
                      /\ (pc[t] = "ret" /\ resp[t].status = 500) =>
                             asked /\ IsNone(host)
                      /\ pc[t] = "panicked" =>
                             asked /\ host = Some(<<>>)
                      /\ (~asked \/ (IsSome(host) /\ Len(Unwrap(host)) > 0)) =>
                             pc[t] = "ret" /\ resp[t].status = 400

\* C16 witness: an upsert with an unparsable key answered 400 while a server
\* with a generated key is stored
C16_Witness ==
    \E t \in Threads :
        /\ frame[t].op = "put_server" /\ pc[t] = "ret"
        /\ resp[t].status = 400
        /\ Unwrap(frame[t].body) = Some(ServerRequestBadKey)
        /\ IsSome(wireguard_data.server)
        /\ Unwrap(wireguard_data.server).private_key = "kB"
        /\ Unwrap(wireguard_data.server).public_key = "pB"

\* C17: a stored server record has at least one address, in every state
\* reachable by upsert-server and delete-server.
C17_ServerHasAddress ==
    IsSome(wireguard_data.server) =>
        Len(Unwrap(wireguard_data.server).address) > 0

\* The lines of a text given by its pieces: split at the line breaks
RECURSIVE Lines(_)
Lines(pieces) ==
    IF \A i \in 1..Len(pieces) : pieces[i] # "\n" THEN <<pieces>>
    ELSE LET brk == CHOOSE i \in 1..Len(pieces) :
                        /\ pieces[i] = "\n"
                        /\ \A j \in 1..(i - 1) : pieces[j] # "\n"
         IN  <<SubSeq(pieces, 1, brk - 1)>>
                 \o Lines(SubSeq(pieces, brk + 1, Len(pieces)))
\* a line that begins with the comment mark
CommentPrefixed(line) ==
    Len(line) > 0 /\ line[1] \in {"# ", "# Name: ", "# UUID: "}
\* reload or restart has written the config file from a dataset with a server
ConfigWritten(t) ==
    /\ frame[t].op \in {"restart", "reload"}
    /\ frame[t].io[1].result = "ok"
    /\ IsSome(wireguard_data.server)

\* C18: in the device config that reload or restart has written, every line
\* of the peer block of a client with enabled = false is comment-prefixed,
\* with and without preshared key and keepalive.
C18_DisabledBlockCommented ==
    \A t \in Threads :
        ConfigWritten(t) =>
            /\ wg_conf = Rendering(wireguard_data)
            /\ \A i \in 1..Len(wireguard_data.clients) :
                   ~wireguard_data.clients[i].enabled =>
                       LET lines ==
                               Lines(get_server_peer_config_pieces(
                                         wireguard_data.clients[i]))
                       IN  \A n \in 1..Len(lines) : CommentPrefixed(lines[n])

\* The value pieces of a client record, and the literals of the client-facing
\* text
ClientValues(c) ==
    LET of(seq) == UNION {{p[i] : i \in 1..Len(p)} : p \in {Pieces(seq[n]) : n \in 1..Len(seq)}}
    IN  of(<<c.name, c.private_key, c.address>>) \cup of(c.dns)
            \cup of(c.client_allowed_ips)
            \cup (IF IsSome(c.preshared_key) THEN of(c.preshared_key) ELSE {})
ClientFacingLiterals ==
    {"# Name: ", "[Interface]", "PrivateKey = ", "Address = ", "DNS = ", "[Peer]",
     "PublicKey = ", "PresharedKey = ", "AllowedIPs = ", "Endpoint = ", ",", "\n"}
\* The client-facing text of the first client of that uuid in a dataset
ClientFacing(data, uuid) ==
    LET i == CHOOSE i \in 1..Len(data.clients) :
                 /\ data.clients[i].uuid = uuid
                 /\ \A j \in 1..(i - 1) : data.clients[j].uuid # uuid
    IN  get_client_config_pieces(data.clients[i], Unwrap(data.server).public_key,
                                 Unwrap(data.server).endpoint)

\* C19: the client-facing text of a stored client is made of the format's
\* literals, the client's own values and the supplied server public key and
\* endpoint, and of nothing else; the server's private key is no piece of it
\* unless it is one of those values; and the dataset with any other server
\* private key gives the same text.
C19_NoServerPrivateKey ==
    \A t \in Threads :
        (frame[t].op = "client_config" /\ pc[t] = "ret")
            => LET text == Unwrap(resp[t].body)
                   server == Unwrap(wireguard_data.server)
                   client == get_client_by_uuid(wireguard_data, frame[t].uuid)
                   allowed == ClientFacingLiterals \cup ClientValues(Unwrap(client))
                                  \cup {server.public_key, server.endpoint}
               IN  /\ \A i \in 1..Len(text) : text[i] \in allowed
                   /\ server.private_key \notin allowed =>
                          \A i \in 1..Len(text) : text[i] # server.private_key
                   /\ \A key \in PrivKeys \cup {"bad"} :
                          ClientFacing([wireguard_data EXCEPT
                                           !.server = Some([server EXCEPT
                                                               !.private_key = key])],
                                       frame[t].uuid) = text

\* C19 witness: the text of a client whose private key is not the server's
C19_Witness ==
    \E t \in Threads :
        /\ frame[t].op = "client_config" /\ pc[t] = "ret"
        /\ frame[t].uuid = "u3"
        /\ Unwrap(wireguard_data.server).private_key = "kA"
        /\ Len(Unwrap(resp[t].body)) > 0

C21_CreatedClientDefaults ==
    \A t \in Threads :
        (CreateClient(t) /\ pc[t] = "ret" /\ resp[t].status = 200)
            => LET body == Unwrap(frame[t].body)
                   stored == wireguard_data.clients[Len(wireguard_data.clients)]
                   allocated == NextAddressText(Unwrap(FoundBase(t)))
               IN  /\ wireguard_data.clients = Append(Pre(t).mem.clients, stored)
                   /\ resp[t].body = Some(stored)
                   /\ IsSome(body.uuid) => stored.uuid = Unwrap(body.uuid)
                   /\ stored.uuid \notin Uuids(Pre(t).mem.clients)
                   /\ stored.enabled = (IsSome(body.enabled) /\ Unwrap(body.enabled))
                   /\ stored.address =
                          IF IsSome(body.address) THEN Unwrap(body.address)
                          ELSE allocated
                   /\ stored.server_allowed_ips =
                          IF IsSome(body.server_allowed_ips)
                          THEN Unwrap(body.server_allowed_ips)
                          ELSE <<allocated>>
                   /\ IsNone(stored.preshared_key)
                          <=> (/\ IsNone(body.preshared_key)
                               /\ body.generate_preshared_key = Some(FALSE))
                   /\ IsSome(body.preshared_key) =>
                          stored.preshared_key = body.preshared_key

\* C21 witness: a create-client that left everything out has succeeded after
\* another client, with a generated preshared key and the allocated address
C21_Witness ==
    \E t \in Threads :
        /\ CreateClient(t) /\ pc[t] = "ret" /\ resp[t].status = 200
        /\ Unwrap(frame[t].body) = ClientRequestGenerated
        /\ Len(wireguard_data.clients) = 2
        /\ wireguard_data.clients[2].preshared_key = Some("sA")
        /\ wireguard_data.clients[2].address = "10.8.0.2/32"
        /\ ~wireguard_data.clients[2].enabled

\* An upsert-server with a body has succeeded
ServerUpserted(t) ==
    /\ frame[t].op = "put_server" /\ pc[t] = "ret" /\ resp[t].status = 200
    /\ IsSome(Unwrap(frame[t].body))

\* C22: the server a successful upsert-server has stored has listen port
\* 51820 when the request gives none, the masquerade post-up and post-down
\* templates when the request gives none, pre-up and pre-down as the request
\* has them (absent when it gives none), and the generated key with its
\* public key when the request gives no private key.
C22_ServerDefaults ==
    \A t \in Threads :
        ServerUpserted(t)
            => LET body == Unwrap(Unwrap(frame[t].body))
                   stored == Unwrap(wireguard_data.server)
               IN  /\ resp[t].body = Some(Some(stored))
                   /\ stored.listen_port =
                          IF IsSome(body.listen_port) THEN Unwrap(body.listen_port)
                          ELSE 51820
                   /\ stored.post_up =
                          IF IsSome(body.post_up) THEN body.post_up
                          ELSE Some(DefaultPostUp)
                   /\ stored.post_down =
                          IF IsSome(body.post_down) THEN body.post_down
                          ELSE Some(DefaultPostDown)
                   /\ stored.pre_up = body.pre_up
                   /\ stored.pre_down = body.pre_down
                   /\ IsNone(body.private_key) =>
                          stored.private_key = "kB" /\ stored.public_key = Pubkey("kB")
                   /\ IsSome(body.private_key) =>
                          stored.private_key = Unwrap(body.private_key)

\* C22 witness: an upsert that gave no key, port or hooks has succeeded
C22_Witness ==
    \E t \in Threads :
        /\ ServerUpserted(t)
        /\ Unwrap(frame[t].body) = Some(ServerRequestNoKey)
        /\ Unwrap(wireguard_data.server).listen_port = 51820
        /\ Unwrap(wireguard_data.server).private_key = "kB"
        /\ IsNone(Unwrap(wireguard_data.server).pre_up)

\* ------------------------------------------------------------------- C23
\* the handler of t has answered an error
ErrorAnswered(t) == pc[t] = "ret" /\ resp[t].status >= 400
\* the request of t lacks a required field or carries a private key that
\* does not parse
MalformedRequest(t) ==
    LET fr == frame[t]
    IN  \/ /\ fr.op = "post_clients"
           /\ \/ IsNone(Unwrap(fr.body).name)
              \/ /\ IsSome(Unwrap(fr.body).private_key)
                 /\ ~PrivkeyParseOk(Unwrap(Unwrap(fr.body).private_key))
        \/ /\ fr.op = "put_server" /\ IsSome(Unwrap(fr.body))
           /\ LET body == Unwrap(Unwrap(fr.body))
              IN  \/ IsNone(body.endpoint) /\ IsNone(Pre(t).mem.server)
                  \/ /\ IsSome(body.private_key)
                     /\ ~PrivkeyParseOk(Unwrap(body.private_key))
\* the host of t has a tunnel interface with an IPv4 address
HostHasAddress(t) ==
    /\ IsSome(Unwrap(frame[t].host))
    /\ Len(Unwrap(Unwrap(frame[t].host))) > 0
\* the conversion of t gets as far as the malformed field: create-client
\* derives and increments the base address first, upsert-server looks the
\* interface up before it parses the key when the request has no address
FieldReached(t) ==
    LET fr == frame[t]
    IN  IF fr.op = "post_clients"
        THEN IF IsSome(Pre(t).mem.server)
             THEN /\ IsSome(FoundBase(t))
                  /\ ~(Unwrap(FoundBase(t))[3] = 255 /\ Unwrap(FoundBase(t))[4] = 255)
             ELSE HostHasAddress(t)
        ELSE LET body == Unwrap(Unwrap(fr.body))
             IN  \/ IsNone(body.endpoint) /\ IsNone(Pre(t).mem.server)
                 \/ IsSome(body.address)
                 \/ HostHasAddress(t)
\* the last persist, config write or tool run of t failed
LastIOFailed(t) ==
    /\ Len(frame[t].io) > 0
    /\ frame[t].io[Len(frame[t].io)].result = "err"
\* the status of an error response follows from the kind of the error
StatusByKind(t) ==
    LET fr == frame[t]
        status == resp[t].status
    IN  /\ status \in {400, 404, 409, 500}
        /\ status = 400 => MalformedRequest(t) /\ NoIO(t)
        /\ status = 404 =>
               /\ fr.op \in {"get_client", "put_client"}
               /\ fr.uuid \notin Uuids(Pre(t).mem.clients)
        /\ status = 409 =>
               /\ fr.op = "post_clients" /\ ~MalformedRequest(t)
               /\ IsSome(Unwrap(fr.body).uuid) =>
                      Unwrap(Unwrap(fr.body).uuid) \in Uuids(Pre(t).mem.clients)
        /\ status = 500 =>
               \/ LastIOFailed(t)
               \/ fr.op = "get_peers"
               \/ /\ fr.op \in {"post_clients", "put_server"} /\ NoIO(t)
                  /\ ~(MalformedRequest(t) /\ FieldReached(t))
        /\ LastIOFailed(t) \/ fr.op = "get_peers" => status = 500

\* C23 as stated: every error response has the status of its error kind,
\* and a malformed request that is answered is answered 400 whatever the
\* dataset holds.
C23_MalformedAlwaysBadRequest ==
    \A t \in Threads :
        /\ ErrorAnswered(t) => StatusByKind(t)
        /\ pc[t] = "ret" /\ MalformedRequest(t) => resp[t].status = 400

\* C23 (amended): every error response has the status of its error kind
\* (400 malformed input, 404 unknown client, 409 duplicate client, 500 every
\* other engine error), and a malformed request is answered 400 whenever the
\* conversion gets as far as the malformed field; when the base address of
\* create-client cannot be derived, or upsert-server without address finds
\* no interface, that failure comes first.
C23_StatusByErrorKind ==
    \A t \in Threads :
        /\ ErrorAnswered(t) => StatusByKind(t)
        /\ pc[t] \in {"ret", "panicked"} /\ MalformedRequest(t) /\ FieldReached(t) =>
               pc[t] = "ret" /\ resp[t].status = 400

\* a malformed create-client is answered 500 since no base address is found
C23_Witness ==
    \E t \in Threads :
        /\ ErrorAnswered(t) /\ frame[t].op = "post_clients"
        /\ MalformedRequest(t) /\ ~FieldReached(t)
        /\ resp[t].status = 500
\* ------------------------------------------------------------------- C24
\* update-client has answered success
ClientUpdated(t) ==
    frame[t].op = "put_client" /\ pc[t] = "ret" /\ resp[t].status = 200

\* C24: a successful update-client replaces the matching record in place: the
\* client list keeps its length and order, the record at the matched position
\* is the request body, and every other client and the server are unchanged.
C24_ReplacedInPlace ==
    \A t \in Threads :
        ClientUpdated(t) =>
            LET before == Pre(t).mem
                after == wireguard_data.clients
            IN  /\ wireguard_data.server = before.server
                /\ Len(after) = Len(before.clients)
                /\ \E i \in 1..Len(after) :
                       /\ before.clients[i].uuid = frame[t].uuid
                       /\ \A j \in 1..(i - 1) : before.clients[j].uuid # frame[t].uuid
                       /\ after[i] = Unwrap(frame[t].body)
                       /\ \A j \in 1..Len(after) : j # i => after[j] = before.clients[j]

\* C24 witness: the first of two different records updated with a body that
\* differs from the record it replaces
C24_Witness ==
    \E t \in Threads :
        /\ ClientUpdated(t)
        /\ Len(wireguard_data.clients) = 2
        /\ Pre(t).mem.clients[1].uuid = frame[t].uuid
        /\ Pre(t).mem.clients[1] # Unwrap(frame[t].body)
        /\ Pre(t).mem.clients[2] # Pre(t).mem.clients[1]
        /\ IsSome(wireguard_data.server)
\* ------------------------------------------------------------------- C25
\* the process of t has read data.json
Loaded(t) ==
    /\ frame[t].op = "main" /\ Len(frame[t].io) > 0
    /\ frame[t].io[1].outcome = "ok"

\* C25: loading a dataset file that a save has written yields the dataset
\* that was saved, with the same server (or none) and the same clients in
\* the same order with every field equal; loading a missing or empty file
\* yields the empty dataset.
C25_SaveLoadRoundTrip ==
    \A t \in Threads :
        Loaded(t) =>
            LET file == Pre(t).disk
                loaded == Unwrap(frame[t].local)
            IN  /\ file.state = "written" =>
                       /\ loaded.tag = "ok" /\ Unwrap(loaded.val) = file.data
                       /\ wireguard_data = file.data
                /\ file.state \in {"missing", "blank"} =>
                       /\ loaded.tag = "ok"
                       /\ Unwrap(loaded.val) = [server |-> <<>>, clients |-> <<>>]
                       /\ wireguard_data = [server |-> <<>>, clients |-> <<>>]

\* C25 witness: a saved dataset with a server and two clients, with present
\* and absent optional fields, has been loaded
C25_Witness ==
    \E t \in Threads :
        /\ Loaded(t) /\ pc[t] = "ret"
        /\ Pre(t).disk.state = "written"
        /\ IsSome(wireguard_data.server)
        /\ IsSome(Unwrap(wireguard_data.server).pre_up)
        /\ IsSome(Unwrap(wireguard_data.server).mtu)
        /\ Len(wireguard_data.clients) = 2
        /\ IsNone(wireguard_data.clients[1].preshared_key)
        /\ IsSome(wireguard_data.clients[2].preshared_key)
\* ------------------------------------------------------------------- C26
\* C26: after a successful update-client(id, body) the stored record is
\* addressable by id: get-client(id) finds the body, whose UUID is id.
C26_UpdatedStaysAddressable ==
    \A t \in Threads :
        ClientUpdated(t) =>
            /\ get_client_by_uuid(wireguard_data, frame[t].uuid) = frame[t].body
            /\ Unwrap(frame[t].body).uuid = frame[t].uuid
\* ------------------------------------------------------------------- C27
\* C27: no handler ends abnormally while it holds the lock: every request
\* is answered and the lock is left usable, so no later handler fails to
\* acquire it.
C27_NoAbnormalTermination ==
    /\ ~mutex.poisoned
    /\ \A t \in Threads : pc[t] # "panicked"
\* ------------------------------------------------------------------- C28
\* C28: every stored client's public key is a well formed key and is the
\* key derived from that client's private key, in every state reachable by
\* create-client, update-client and replace-all-clients.
C28_StoredKeysDerived ==
    \A i \in 1..Len(wireguard_data.clients) :
        LET client == wireguard_data.clients[i]
        IN  /\ IsSome(KeyFromStr(client.public_key))
            /\ PrivkeyParseOk(client.private_key)
            /\ client.public_key = Pubkey(client.private_key)
\* ------------------------------------------------------------------- C29
\* upsert-server of t has succeeded on a dataset that had a server
ServerReplaced(t) == ServerUpserted(t) /\ IsSome(Pre(t).mem.server)
\* upsert-server of t with a null body has succeeded
ServerRemoved(t) ==
    /\ frame[t].op = "put_server" /\ pc[t] = "ret" /\ resp[t].status = 200
    /\ IsNone(Unwrap(frame[t].body))

\* C29: upsert-server on a dataset with a server takes only the endpoint from
\* the stored record: every other field the request leaves out has its
\* default (a request without private key stores the generated key pair),
\* whatever the stored record held; a null body removes the server; the
\* client list is unchanged either way.
C29_UpsertInheritsEndpointOnly ==
    \A t \in Threads :
        /\ ServerReplaced(t) =>
               LET body == Unwrap(Unwrap(frame[t].body))
                   old == Unwrap(Pre(t).mem.server)
                   stored == Unwrap(wireguard_data.server)
               IN  /\ stored.endpoint = UnwrapOr(body.endpoint, old.endpoint)
                   /\ stored.address =
                          UnwrapOr(body.address,
                                   <<AddrText(Unwrap(Unwrap(frame[t].host))[1], None)>>)
                   /\ stored.dns = UnwrapOr(body.dns, <<>>)
                   /\ stored.listen_port = UnwrapOr(body.listen_port, 51820)
                   /\ stored.private_key = UnwrapOr(body.private_key, "kB")
                   /\ stored.public_key = Pubkey(stored.private_key)
                   /\ stored.pre_up = body.pre_up /\ stored.pre_down = body.pre_down
                   /\ stored.post_up = OrElse(body.post_up, Some(DefaultPostUp))
                   /\ stored.post_down = OrElse(body.post_down, Some(DefaultPostDown))
                   /\ stored.table = body.table /\ stored.mtu = body.mtu
                   /\ wireguard_data.clients = Pre(t).mem.clients
        /\ ServerRemoved(t) =>
               /\ IsNone(wireguard_data.server)
               /\ wireguard_data.clients = Pre(t).mem.clients

\* C29 witness: a request with no field set has replaced a server that had
\* every field set, with clients stored
C29_Witness ==
    \E t \in Threads :
        /\ ServerReplaced(t)
        /\ Unwrap(frame[t].body) = Some(NoServerFields)
        /\ Unwrap(Pre(t).mem.server).private_key = "kA"
        /\ Unwrap(Pre(t).mem.server).listen_port = 51821
        /\ IsSome(Unwrap(Pre(t).mem.server).pre_up)
        /\ Unwrap(wireguard_data.server).private_key = "kB"
        /\ Len(wireguard_data.clients) = 2
\* ------------------------------------------------------------------- C30
\* the handler of t is one of the four control operations of the device
DeviceControl(t) == frame[t].op \in {"restart", "reload", "start", "stop"}
\* restart or reload of t found no server and its config write succeeded
WroteWithoutServer(t) ==
    /\ frame[t].op \in {"restart", "reload"}
    /\ IsNone(Pre(t).mem.server)
    /\ frame[t].io[1].call = "save_wireguard_config"
    /\ frame[t].io[1].outcome = "ok"

\* C30: with no server stored, restart and reload do not fail at the
\* rendering step: they leave the config file written with empty text and go
\* on to the device tool as they do with a server; restart, reload, start and
\* stop never change the dataset or the dataset file.
C30_NoServerWritesEmptyConfig ==
    \A t \in Threads :
        /\ DeviceControl(t) =>
               /\ wireguard_data = Pre(t).mem
               /\ data_json = Pre(t).disk
        /\ WroteWithoutServer(t) =>
               /\ frame[t].io[1].result = "ok"
               /\ wg_conf = [state |-> "written", text |-> ""]
               /\ pc[t] = "ret" =>
                      Called(t, IF frame[t].op = "restart" THEN "stop_wireguard"
                                ELSE "reload_wireguard")
               /\ pc[t] # "ret" =>
                      pc[t] = (IF frame[t].op = "reload" THEN "reload"
                               ELSE IF Called(t, "stop_wireguard") THEN "start"
                               ELSE "stop")

\* C30 witness: a restart without server has overwritten a config that had
\* text with the empty text and has run stop and start
C30_Witness ==
    \E t \in Threads :
        /\ WroteWithoutServer(t) /\ frame[t].op = "restart" /\ pc[t] = "ret"
        /\ Pre(t).conf.state = "written" /\ Pre(t).conf.text # ""
        /\ wg_conf.text = ""
        /\ Called(t, "stop_wireguard") /\ Called(t, "start_wireguard")
====
